---- MODULE Spec2Model ----
(***************************************************************************)
(* Key-binding layer of pgcli (src/pgcli/key_bindings.py).                 *)
(*                                                                         *)
(* The model has three layers:                                             *)
(*   - the objects the handlers read and write (the pgcli object's toggle  *)
(*     flags, the application's editing mode, the ViState input-mode       *)
(*     storage with the monkey-patched property, the terminal stream, the  *)
(*     current Buffer and its Document);                                   *)
(*   - the handlers of pgcli_bindings, each a function from the state      *)
(*     before the call to the state after it;                              *)
(*   - the key processor that picks the handler of a key press from the    *)
(*     binding table (filters, eager precedence, chord prefixes).          *)
(*                                                                         *)
(* A key press is modelled as the key processor handles it: the handler is *)
(* called and the processor then corrects the vi cursor position and       *)
(* leaves temporary navigation mode.  start_completion and insert_text     *)
(* only schedule the completer and the suggester; the scheduled tasks are  *)
(* actions of their own, which run between key presses.                    *)
(***************************************************************************)
EXTENDS Integers, Sequences, FiniteSets, TLC

(***************************************************************************)
(* Bounds of the model.                                                    *)
(***************************************************************************)
\* Longest buffer text explored; an insertion that would exceed it is not taken.
MaxText == 6
\* Most completion candidates the completer returns for one session.
MaxCands == 2
\* Largest repeat count of a key event (event.arg); the smallest is -1, the
\* value of a count typed as "-" alone.
MaxArg == 2
\* setup_vim_cursor_shapes calls are counted up to this number.
MaxAttach == 2
\* Most background tasks scheduled and not yet started; a key press that
\* would schedule more is not taken.
MaxTasks == 2

(***************************************************************************)
(* Program constants.                                                      *)
(***************************************************************************)
\* tab_insert_text = " " * 4
TabWidth == 4

\* The bytes ESC [ SPACE q of the cursor-shape sequence, and the digit '0'.
ESC == 27
LBRACKET == 91
SPACE == 32
LowerQ == 113
Digit0 == 48

\* The members of prompt_toolkit's InputMode.
InputModes == {"INSERT", "INSERT_MULTIPLE", "NAVIGATION", "REPLACE", "REPLACE_SINGLE"}
EditingModes == {"VI", "EMACS"}
\* What sys.stdout is: a healthy byte-capable stream ("ok"), None ("none"),
\* a stream whose write raises OSError ("oserror"), a closed stream whose
\* write raises ValueError ("closed"), a text stream without a buffer
\* attribute, whose write of bytes raises TypeError ("text").
StreamStates == {"ok", "none", "oserror", "closed", "text"}

VARIABLES
    pgcli,          \* the outer CLI object: smart_completion, multi_line, vi_mode, explain_mode
    editing_mode,   \* event.app.editing_mode
    vi_state,       \* app.vi_state and the ViState class patch
    stdout,         \* state of sys.stdout
    term,           \* the last byte sequence the terminal received (<<>>: none yet)
    buff,           \* event.app.current_buffer
    background_tasks, \* app._background_tasks: the tasks scheduled and not yet started
    key_buffer,     \* KeyProcessor.key_buffer: keys waiting for a longer chord
    is_done,        \* app.is_done: the prompt has returned, keys are no longer processed
    last            \* the last event processed and what it did

vars == <<pgcli, editing_mode, vi_state, stdout, term, buff, background_tasks,
          key_buffer, is_done, last>>

(***************************************************************************)
(* Small helpers on sequences.                                             *)
(***************************************************************************)
Min(a, b) == IF a < b THEN a ELSE b
Max(a, b) == IF a > b THEN a ELSE b

Repeat(c, n) == [i \in 1..n |-> c]

Take(s, n) == SubSeq(s, 1, n)
Drop(s, n) == SubSeq(s, n + 1, Len(s))

Last(s) == s[Len(s)]

(***************************************************************************)
(* The state handed to a handler: the objects it can reach, and the log    *)
(* of what the current event has done so far: the handlers called, the     *)
(* bytes written, the exception raised, the submissions, and the buffer as *)
(* the handler called last returned it.                                    *)
(***************************************************************************)
EmptyLog ==
    [fired |-> <<>>, out |-> <<>>, raised |-> "none", submitted |-> 0, returned |-> <<>>]

Cur == [pgcli |-> pgcli, editing_mode |-> editing_mode, vi_state |-> vi_state,
        stdout |-> stdout, term |-> term, buff |-> buff, tasks |-> background_tasks,
        done |-> is_done,
        log |-> [EmptyLog EXCEPT !.returned = buff]]

\* An exception left the handler: the statements after the raise did not run.
Raised(s) == s.log.raised # "none"

(***************************************************************************)
(* Cursor shapes: setup_vim_cursor_shapes and the patched property.        *)
(***************************************************************************)
\* shape = {NAVIGATION: 1, REPLACE: 3, INSERT: 5}.get(mode, 5)
ShapeOf(mode) ==
    CASE mode = "NAVIGATION" -> 1
      [] mode = "REPLACE" -> 3
      [] mode = "INSERT" -> 5
      [] OTHER -> 5

\* '\x1b[{} q'.format(shape).encode('ascii'), for a one-digit shape.
EscapeSeq(shape) == <<ESC, LBRACKET, Digit0 + shape, SPACE, LowerQ>>

\* b'\x1b[5 q'
BeamReset == <<ESC, LBRACKET, Digit0 + 5, SPACE, LowerQ>>

\* A write that sends the sequence twice (a variant of WriteShape).
WriteShapeTwice(s, bytes) ==
    CASE s.stdout = "ok" ->
            [s EXCEPT !.term = bytes, !.log.out = Append(Append(@, bytes), bytes)]
      [] s.stdout \in {"none", "oserror"} -> s
      [] s.stdout = "closed" -> [s EXCEPT !.log.raised = "ValueError"]
      [] s.stdout = "text" -> [s EXCEPT !.log.raised = "TypeError"]

\* out = getattr(sys.stdout, 'buffer', sys.stdout); try: out.write(bytes);
\* sys.stdout.flush(); except (AttributeError, OSError): pass
\* AttributeError (stdout is None) and OSError are swallowed; the ValueError
\* of a closed stream and the TypeError of a text stream handed bytes are
\* not in the except clause and leave the handler.
WriteShape(s, bytes) ==
    CASE s.stdout = "ok" ->
            [s EXCEPT !.term = bytes, !.log.out = Append(@, bytes)]
      [] s.stdout \in {"none", "oserror"} -> s
      [] s.stdout = "closed" -> [s EXCEPT !.log.raised = "ValueError"]
      [] s.stdout = "text" -> [s EXCEPT !.log.raised = "TypeError"]

\* ViState.input_mode as read.  Before the patch: prompt_toolkit's own
\* property over the instance's private field.  After it:
\* property(lambda self: self._input_mode, ...), which finds the instance
\* attribute when a patched set has created it and otherwise the class
\* attribute ViState._input_mode = InputMode.INSERT.
GetInputMode(s) ==
    IF s.vi_state.patched
    THEN IF s.vi_state.inst_mode = "unset" THEN "INSERT" ELSE s.vi_state.inst_mode
    ELSE s.vi_state.orig_mode

\* A setter that each call of setup_vim_cursor_shapes wraps once more, so
\* that the sequence is written once per call made so far (a variant of
\* set_input_mode).
set_input_mode_stacked(s, mode) ==
    LET w1 == WriteShape(s, EscapeSeq(ShapeOf(mode)))
        w == IF s.vi_state.attached >= 2 /\ ~Raised(w1)
             THEN WriteShape(w1, EscapeSeq(ShapeOf(mode))) ELSE w1
    IN IF Raised(w) THEN w
       ELSE [w EXCEPT !.vi_state.inst_mode = mode]

\* def set_input_mode(self, mode): the write, then self._input_mode = mode.
set_input_mode(s, mode) ==
    LET w == WriteShape(s, EscapeSeq(ShapeOf(mode)))
    IN IF Raised(w) THEN w
       ELSE [w EXCEPT !.vi_state.inst_mode = mode]

\* vi_state.input_mode = mode, whoever assigns it (prompt_toolkit's vi
\* bindings, ViState.reset): the patched setter once the class is patched,
\* prompt_toolkit's own setter before, which on NAVIGATION also drops a
\* pending operator and digraph.
AssignInputMode(s, mode) ==
    IF s.vi_state.patched
    THEN set_input_mode(s, mode)
    ELSE IF mode = "NAVIGATION"
    THEN [s EXCEPT !.vi_state.orig_mode = mode,
                   !.vi_state.waiting_for_digraph = FALSE,
                   !.vi_state.operator_func = FALSE]
    ELSE [s EXCEPT !.vi_state.orig_mode = mode]

\* ViState._input_mode = InputMode.INSERT; ViState.input_mode = property(...)
\* The class attribute is (re)set; an instance attribute is left as it is.
\* Each call replaces the property by a new one over a new set_input_mode.
setup_vim_cursor_shapes(s) ==
    [s EXCEPT !.vi_state.patched = TRUE,
              !.vi_state.attached = IF @ < MaxAttach THEN @ + 1 ELSE @]

(***************************************************************************)
(* Toggle handlers F2..F5.                                                 *)
(***************************************************************************)
f2_handler(s) == [s EXCEPT !.pgcli.smart_completion = ~@]

f3_handler(s) == [s EXCEPT !.pgcli.multi_line = ~@]

\* An F4 that flips the flag and always selects the VI editing mode (a
\* variant of f4_handler).
f4_one_way(s) ==
    LET t == [s EXCEPT !.pgcli.vi_mode = ~@, !.editing_mode = "VI"]
    IN IF t.pgcli.vi_mode THEN setup_vim_cursor_shapes(t) ELSE WriteShape(t, BeamReset)

\* An F4 that sends the beam reset only when the ViState class was patched
\* (a variant of f4_handler).
f4_reset_when_attached(s) ==
    LET flipped == [s EXCEPT !.pgcli.vi_mode = ~@]
        t == [flipped EXCEPT
                 !.editing_mode = IF flipped.pgcli.vi_mode THEN "VI" ELSE "EMACS"]
    IN IF t.pgcli.vi_mode
       THEN setup_vim_cursor_shapes(t)
       ELSE IF t.vi_state.patched THEN WriteShape(t, BeamReset) ELSE t

f4_handler(s) ==
    LET flipped == [s EXCEPT !.pgcli.vi_mode = ~@]
        t == [flipped EXCEPT
                 !.editing_mode = IF flipped.pgcli.vi_mode THEN "VI" ELSE "EMACS"]
    IN IF t.pgcli.vi_mode
       THEN setup_vim_cursor_shapes(t)
       ELSE WriteShape(t, BeamReset)

\* An F5 that toggles vi_mode, as its docstring says (a variant of
\* f5_handler).
f5_toggles_vi_mode(s) == [s EXCEPT !.pgcli.vi_mode = ~@]

f5_handler(s) == [s EXCEPT !.pgcli.explain_mode = ~@]

(***************************************************************************)
(* Document: the text and cursor of the buffer (prompt_toolkit Document,   *)
(* as the handlers use it).  A text is a sequence of characters; the       *)
(* cursor is the number of characters before it.                           *)
(***************************************************************************)
\* str.isspace(): the characters str.strip() removes.  A character that
\* has no escape in a string is written as its code point: "U+000B" is the
\* vertical tab, "U+00A0" the no-break space.
IsWhitespace(c) ==
    c \in {" ", "\n", "\t", "\r", "\f", "U+000B",
           "U+001C", "U+001D", "U+001E", "U+001F", "U+0085", "U+00A0", "U+1680",
           "U+2000", "U+2001", "U+2002", "U+2003", "U+2004", "U+2005", "U+2006",
           "U+2007", "U+2008", "U+2009", "U+200A", "U+2028", "U+2029", "U+202F",
           "U+205F", "U+3000"}

\* Index of the last "\n" before the cursor, 0 when there is none.
LineStart(text, cursor) ==
    LET nl == {i \in 1..cursor : text[i] = "\n"}
    IN IF nl = {} THEN 0 ELSE CHOOSE i \in nl : \A j \in nl : j <= i

\* Index of the last character of the cursor's line.
LineEnd(text, cursor) ==
    LET nl == {i \in (cursor + 1)..Len(text) : text[i] = "\n"}
    IN IF nl = {} THEN Len(text) ELSE (CHOOSE i \in nl : \A j \in nl : i <= j) - 1

current_line_before_cursor(text, cursor) == SubSeq(text, LineStart(text, cursor) + 1, cursor)
current_line_after_cursor(text, cursor) == SubSeq(text, cursor + 1, LineEnd(text, cursor))
current_line(text, cursor) ==
    current_line_before_cursor(text, cursor) \o current_line_after_cursor(text, cursor)

\* doc.on_first_line: cursor_position_row == 0
on_first_line(text, cursor) == \A i \in 1..cursor : text[i] # "\n"

\* doc.is_cursor_at_the_end_of_line: current_char in ("\n", "")
is_cursor_at_the_end_of_line(text, cursor) ==
    cursor >= Len(text) \/ text[cursor + 1] = "\n"

\* bool(line): the line holds a character (a variant of StripNonEmpty that
\* leaves out the strip).
NonEmpty(line) == line # <<>>

\* bool(line.strip()): the line holds a character that is not whitespace.
StripNonEmpty(line) == \E i \in 1..Len(line) : ~IsWhitespace(line[i])

\* A step to the right that is not limited to the line (a variant of
\* get_cursor_right_position).
cursor_right_unclamped(text, cursor) == 1

\* doc.get_cursor_right_position(): min(count, len(current_line_after_cursor)), count = 1
get_cursor_right_position(text, cursor) ==
    Min(1, Len(current_line_after_cursor(text, cursor)))

\* doc.get_end_of_line_position()
get_end_of_line_position(text, cursor) == Len(current_line_after_cursor(text, cursor))

(***************************************************************************)
(* Buffer (prompt_toolkit Buffer, as the handlers use it).                 *)
(*   lines, widx   _working_lines and working_index (1-based here); the    *)
(*                 text of the buffer is lines[widx]                       *)
(*   cursor        cursor_position                                         *)
(*   cs            complete_state: closed, or open with n candidates, the  *)
(*                 selected index (-1: none) and the original document     *)
(*                 (sp: the start_position of its candidates)              *)
(*   suggestion    the pending Suggestion (some = FALSE: None)             *)
(*   selection     selection_state is not None                             *)
(*   read_only     the read_only filter of the buffer                      *)
(*   complete_while_typing, auto_suggest                                   *)
(*                 the buffer completes while typing; it has a suggester   *)
(*   completer     the coroutine of _async_completer: whether it is        *)
(*                 running (between its start and the end of the           *)
(*                 completer's answer), the select_first it was started    *)
(*                 with and the text before the cursor it started from     *)
(*   suggester     the coroutine of _async_suggester: whether it is        *)
(*                 running (it awaits the suggester's answer), the text    *)
(*                 and cursor of the document it asked about, and whether  *)
(*                 the selection is still the one of that document         *)
(***************************************************************************)
NoCompletion ==
    [open |-> FALSE, n |-> 0, index |-> -1, sp |-> 0, otext |-> <<>>, ocur |-> 0]
NoSuggestion == [some |-> FALSE, text |-> <<>>]
NotRunning == [running |-> FALSE, select_first |-> FALSE, before |-> <<>>]
NotSuggesting ==
    [running |-> FALSE, text |-> <<>>, cursor |-> 0, selected |-> FALSE,
     selection_kept |-> TRUE]

\* The start_position values of the candidates the completer yields: 0 (the
\* candidate is inserted) and -1 (it replaces the character before the
\* cursor).
StartPositions == {-1, 0}

Text(b) == b.lines[b.widx]

\* buff.selection_state = value (a SelectionState, or None): a document
\* read before and one read after hold different selections.
SetSelection(b, value) ==
    IF b.selection = value /\ ~value THEN b
    ELSE [b EXCEPT !.selection = value,
                   !.suggester.selection_kept = IF b.suggester.running THEN FALSE ELSE @]

\* Buffer._text_changed
text_changed(b) ==
    [SetSelection(b, FALSE) EXCEPT !.cs = NoCompletion, !.suggestion = NoSuggestion]

\* Buffer._cursor_position_changed
cursor_position_changed(b) == [b EXCEPT !.cs = NoCompletion]

\* buff.document = Document(text, cursor)
SetDocument(b, text, cursor) ==
    LET c == Max(0, cursor)
        b1 == [b EXCEPT !.lines[b.widx] = text, !.cursor = c]
        b2 == IF text # Text(b) THEN text_changed(b1) ELSE b1
    IN IF c # b.cursor THEN cursor_position_changed(b2) ELSE b2

\* buff.cursor_position = value: the value is brought into 0..len(text).
SetCursor(b, value) ==
    LET c == Max(0, Min(Len(Text(b)), value))
    IN IF c # b.cursor THEN cursor_position_changed([b EXCEPT !.cursor = c]) ELSE b

\* The tasks insert_text schedules when fire_event is true: the completer
\* when the buffer completes while typing, then the suggester when the
\* buffer has one.
InsertTasks(b) ==
    (IF b.complete_while_typing THEN <<"complete">> ELSE <<>>)
        \o (IF b.auto_suggest THEN <<"suggest">> ELSE <<>>)

\* buff.insert_text(data, fire_event=...): the text is inserted at the cursor
\* and the cursor moves past it; with fire_event the background completer
\* and suggester are scheduled.
insert_text(s, data, fire_event) ==
    LET b == s.buff
    IN [s EXCEPT !.buff = SetDocument(b, Take(Text(b), b.cursor) \o data
                                             \o Drop(Text(b), b.cursor),
                                      b.cursor + Len(data)),
                 !.tasks = IF fire_event THEN @ \o InsertTasks(b) ELSE @]

\* The text of the i-th candidate (1-based) the completer returns.
Candidate(i) == Repeat("a", i)

\* text[i:] and text[:i] as Python slices them: an index below zero counts
\* from the end of the text, and an index outside the text is brought to
\* its nearer end.
SliceFrom(text, i) ==
    IF i >= 0 THEN Drop(text, Min(i, Len(text)))
    ELSE Drop(text, Max(0, Len(text) + i))
SliceTo(text, i) ==
    IF i >= 0 THEN Take(text, Min(i, Len(text)))
    ELSE Take(text, Max(0, Len(text) + i))

\* original_text_before_cursor[:start_position], the whole of it when
\* start_position is 0: the text the candidate is put behind.
KeptBefore(cs) ==
    IF cs.sp = 0 THEN Take(cs.otext, cs.ocur)
    ELSE SliceTo(Take(cs.otext, cs.ocur), cs.sp)

\* self.completions[self.complete_index] raises IndexError: an index is
\* selected that the list of candidates does not hold (the coroutine has
\* emptied the list under a selected candidate).
IndexError(cs) == cs.open /\ cs.index # -1 /\ cs.index >= cs.n

\* CompletionState.new_text_and_position(): the original document when no
\* candidate is selected; otherwise the candidate replaces the -start_position
\* characters before the original cursor.
NewText(cs) ==
    IF cs.index = -1 THEN cs.otext
    ELSE KeptBefore(cs) \o Candidate(cs.index + 1) \o Drop(cs.otext, cs.ocur)
NewCursor(cs) ==
    IF cs.index = -1 THEN cs.ocur
    ELSE Len(KeptBefore(cs)) + Len(Candidate(cs.index + 1))

\* CompletionState.go_to_index(index): if self.completions: ...
go_to_index(cs, index) == IF cs.n > 0 THEN [cs EXCEPT !.index = index] ELSE cs

\* buff.go_to_completion(index): the document becomes the original one with
\* the candidate applied, and the completion state is kept.
go_to_completion(b, index) ==
    LET state == go_to_index(b.cs, index)
        b1 == SetDocument(b, NewText(state), NewCursor(state))
    IN [b1 EXCEPT !.cs = state]

\* buff.complete_next()
complete_next(b) ==
    IF ~b.cs.open THEN b
    ELSE go_to_completion(b,
            IF b.cs.index = -1 THEN 0
            ELSE IF b.cs.index = b.cs.n - 1 THEN -1
            ELSE Min(b.cs.n - 1, b.cs.index + 1))

\* buff.complete_previous()
complete_previous(b) ==
    IF ~b.cs.open THEN b
    ELSE go_to_completion(b,
            IF b.cs.index = 0 THEN -1
            ELSE IF b.cs.index = -1 THEN b.cs.n - 1
            ELSE Max(0, b.cs.index - 1))

\* buff.start_completion(select_first=...):
\* get_app().create_background_task(self._async_completer(...)).  The call
\* schedules the completer and returns; the buffer is not touched.
start_completion(s, select_first) ==
    [s EXCEPT !.tasks = Append(@, IF select_first THEN "complete_first" ELSE "complete")]

\* async_completer, from its start to its first await: nothing when a
\* completion state exists; otherwise an empty CompletionState over the
\* current document is installed and the completer is asked.
async_completer_begin(b, select_first) ==
    IF b.cs.open THEN [b EXCEPT !.completer = NotRunning]
    ELSE [b EXCEPT !.cs = [open |-> TRUE, n |-> 0, index |-> -1, sp |-> 0,
                           otext |-> Text(b), ocur |-> b.cursor],
                   !.completer = [running |-> TRUE, select_first |-> select_first,
                                  before |-> Take(Text(b), b.cursor)]]

\* _only_one_at_a_time: a completer task that starts while the coroutine is
\* running returns at once.
async_completer_start(b, select_first) ==
    IF b.completer.running THEN b ELSE async_completer_begin(b, select_first)

\* completion_does_nothing(document, completion): the text the candidate
\* replaces is the candidate's own text.
completion_does_nothing(before, sp, candidate) ==
    SliceFrom(before, Len(before) + sp) = candidate

\* b is a prefix of a
StartsWith(a, b) == Len(b) <= Len(a) /\ Take(a, Len(b)) = b

\* async_completer, one turn of its loop over the completer's generator:
\* complete_state.completions.append(completion), for a candidate whose
\* start_position is sp.  The completion state is the one installed at the
\* start (otherwise the loop is left, see async_completer_end).
async_completer_yield(b, sp) ==
    [b EXCEPT !.cs.n = @ + 1, !.cs.sp = sp]

\* async_completer, from the end of its loop to its end.  A single
\* candidate that does nothing is deleted from the list.  While the
\* completion state is still the one installed at the start: nothing more
\* happens when a candidate is selected already; no candidates reset the
\* state to None; with select_first the first candidate is applied.  When
\* the state was dropped meanwhile: the coroutine starts again when text
\* was inserted behind the text it started from, and ends otherwise.
async_completer_end(b) ==
    LET select_first == b.completer.select_first
        now == Take(Text(b), b.cursor)
        ended == [b EXCEPT !.completer = NotRunning]
    IN IF b.cs.open
       THEN LET n == IF b.cs.n = 1 /\ completion_does_nothing(b.completer.before, b.cs.sp,
                                                                Candidate(1))
                     THEN 0 ELSE b.cs.n
                loaded == [ended EXCEPT !.cs.n = n]
            IN IF loaded.cs.index # -1 THEN loaded
               ELSE IF n = 0 THEN [loaded EXCEPT !.cs = NoCompletion]
               ELSE IF select_first THEN go_to_completion(loaded, 0)
               ELSE loaded
       ELSE IF now = b.completer.before THEN ended
       ELSE IF StartsWith(now, b.completer.before)
       THEN async_completer_begin(ended, select_first)
       ELSE ended

\* async_suggester, from its start to its await: nothing when a suggestion
\* is pending or the buffer has no suggester; otherwise the suggester is
\* asked about the current document.
async_suggester_begin(b) ==
    IF b.suggestion.some \/ ~b.auto_suggest THEN [b EXCEPT !.suggester = NotSuggesting]
    ELSE [b EXCEPT !.suggester = [running |-> TRUE, text |-> Text(b),
                                  cursor |-> b.cursor, selected |-> b.selection,
                                  selection_kept |-> TRUE]]

\* _only_one_at_a_time: a suggester task that starts while the coroutine is
\* running returns at once.
async_suggester_start(b) ==
    IF b.suggester.running THEN b ELSE async_suggester_begin(b)

\* async_suggester, from the suggester's answer (None included) to its end:
\* the answer becomes the suggestion when the document is still the one
\* asked about (text, cursor and selection: no selection then and now, or
\* the very selection it had then); otherwise the coroutine starts again.
async_suggester_end(b, answer) ==
    IF /\ Text(b) = b.suggester.text
       /\ b.cursor = b.suggester.cursor
       /\ IF b.suggester.selected THEN b.suggester.selection_kept ELSE ~b.selection
    THEN [b EXCEPT !.suggestion = answer, !.suggester = NotSuggesting]
    ELSE async_suggester_begin([b EXCEPT !.suggester = NotSuggesting])

\* The working_index setter: cursor to 0, then _text_changed().
SetWorkingIndex(b, i) ==
    IF i = b.widx THEN b
    ELSE text_changed(SetCursor([b EXCEPT !.widx = i], 0))

\* A step of one entry whatever the count (a variant of history_backward).
history_backward_one(b, count) ==
    IF b.widx = 1 THEN b
    ELSE LET b1 == SetWorkingIndex(b, b.widx - 1)
         IN SetCursor(b1, Len(Text(b1)))

\* buff.history_backward(count): one entry back per count; the loop stops at
\* the oldest entry, and never stops earlier when count <= 0.
history_backward(b, count) ==
    IF b.widx = 1 THEN b
    ELSE LET i == IF count >= 1 THEN Max(1, b.widx - count) ELSE 1
             b1 == SetWorkingIndex(b, i)
         IN SetCursor(b1, Len(Text(b1)))

\* buff.history_forward(count); the cursor goes to the end of the first line.
history_forward(b, count) ==
    IF b.widx = Len(b.lines) THEN b
    ELSE LET i == IF count >= 1 THEN Min(Len(b.lines), b.widx + count) ELSE Len(b.lines)
             b1 == SetWorkingIndex(b, i)
             b2 == SetCursor(b1, 0)
         IN SetCursor(b2, b2.cursor + get_end_of_line_position(Text(b2), b2.cursor))

(***************************************************************************)
(* Filters of the binding table, over the state s and the event inputs ev. *)
(***************************************************************************)
\* has_completions: complete_state is not None and it has completions
has_completions(s) == s.buff.cs.open /\ s.buff.cs.n > 0

\* A filter that holds whenever the menu is open (a variant of
\* completion_is_selected).
completion_menu_is_open(s) == s.buff.cs.open

\* completion_is_selected: complete_state.current_completion is not None
\* (reading current_completion raises in the states of IndexError, see
\* FilterRaises)
completion_is_selected(s) == s.buff.cs.open /\ s.buff.cs.index # -1

\* has_selection
has_selection(s) == s.buff.selection

\* vi_mode: app.editing_mode == EditingMode.VI
vi_mode(s) == s.editing_mode = "VI"

\* vi_navigation_mode: false when the editing mode is not VI, an operator is
\* pending, a digraph is awaited or text is selected; otherwise true when
\* the input mode reads NAVIGATION, in temporary navigation mode, and for a
\* read-only buffer.
vi_navigation_mode(s) ==
    IF \/ s.editing_mode # "VI"
       \/ s.vi_state.operator_func
       \/ s.vi_state.waiting_for_digraph
       \/ s.buff.selection
    THEN FALSE
    ELSE \/ GetInputMode(s) = "NAVIGATION"
         \/ s.vi_state.temporary_navigation_mode
         \/ s.buff.read_only

\* is_searching (the layout's search state) is owned by the host.
is_searching(ev) == ev.searching

\* buffer_should_be_handled(pgcli) and safe_multi_line_mode(pgcli) live in
\* pgbuffer; here they are opaque predicates whose value the event carries.
buffer_should_be_handled(ev) == ev.bsh
safe_multi_line_mode(ev) == ev.sml

\* has_suggestion_at_end
has_suggestion_at_end(s) ==
    /\ s.buff.suggestion.some
    /\ is_cursor_at_the_end_of_line(Text(s.buff), s.buff.cursor)

(***************************************************************************)
(* The binding table of pgcli_bindings, in registration order.             *)
(***************************************************************************)
Bindings == <<
    [id |-> "f2",           keys |-> <<"f2">>,              eager |-> FALSE],
    [id |-> "f3",           keys |-> <<"f3">>,              eager |-> FALSE],
    [id |-> "f4",           keys |-> <<"f4">>,              eager |-> FALSE],
    [id |-> "f5",           keys |-> <<"f5">>,              eager |-> FALSE],
    [id |-> "tab",          keys |-> <<"tab">>,             eager |-> FALSE],
    [id |-> "escape",       keys |-> <<"escape">>,          eager |-> FALSE],
    [id |-> "c-space",      keys |-> <<"c-space">>,         eager |-> FALSE],
    [id |-> "c-j",          keys |-> <<"c-j">>,             eager |-> FALSE],
    [id |-> "c-k",          keys |-> <<"c-k">>,             eager |-> FALSE],
    [id |-> "enter_accept", keys |-> <<"enter">>,           eager |-> FALSE],
    [id |-> "enter_submit", keys |-> <<"enter">>,           eager |-> FALSE],
    [id |-> "escape_enter", keys |-> <<"escape", "enter">>, eager |-> FALSE],
    [id |-> "c-p",          keys |-> <<"c-p">>,             eager |-> FALSE],
    [id |-> "c-n",          keys |-> <<"c-n">>,             eager |-> FALSE],
    [id |-> "l_accept",     keys |-> <<"l">>,               eager |-> TRUE],
    [id |-> "l_move",       keys |-> <<"l">>,               eager |-> FALSE],
    [id |-> "right_accept", keys |-> <<"right">>,           eager |-> TRUE],
    [id |-> "right_move",   keys |-> <<"right">>,           eager |-> FALSE] >>

\* A submit guard that leaves out the completion and search tests (a
\* variant of enter_submit_filter).
enter_submit_unguarded(s, ev) == buffer_should_be_handled(ev)

\* ~(completion_is_selected | is_searching) & buffer_should_be_handled(pgcli)
enter_submit_filter(s, ev) ==
    ~(completion_is_selected(s) \/ is_searching(ev)) /\ buffer_should_be_handled(ev)

\* The filters whose evaluation raises: those that read
\* complete_state.current_completion first.
FilterRaises(id, s) ==
    id \in {"enter_accept", "enter_submit"} /\ IndexError(s.buff.cs)

Filter(id, s, ev) ==
    CASE id \in {"f2", "f3", "f4", "f5", "tab", "c-space"} -> TRUE
      [] id \in {"escape", "c-j", "c-k"} -> has_completions(s)
      [] id = "enter_accept" -> completion_is_selected(s)
      [] id = "enter_submit" -> enter_submit_filter(s, ev)
      [] id = "escape_enter" -> ~vi_mode(s) /\ ~safe_multi_line_mode(ev)
      [] id \in {"c-p", "c-n"} -> ~has_selection(s)
      [] id \in {"l_accept", "right_accept"} ->
            vi_navigation_mode(s) /\ has_suggestion_at_end(s)
      [] id \in {"l_move", "right_move"} -> vi_navigation_mode(s)

(***************************************************************************)
(* Handlers of the buffer keys.                                            *)
(***************************************************************************)
\* buff.complete_next() and buff.complete_previous() as a handler calls
\* them: go_to_completion reads the selected candidate and raises when the
\* list does not hold it.
CompleteNext(s) ==
    IF IndexError(s.buff.cs) THEN [s EXCEPT !.log.raised = "IndexError"]
    ELSE [s EXCEPT !.buff = complete_next(s.buff)]

CompletePrevious(s) ==
    IF IndexError(s.buff.cs) THEN [s EXCEPT !.log.raised = "IndexError"]
    ELSE [s EXCEPT !.buff = complete_previous(s.buff)]

\* A Tab without the indentation branch (a variant of tab_handler).
tab_always_completes(s) ==
    IF s.buff.cs.open
    THEN CompleteNext(s)
    ELSE start_completion(s, TRUE)

tab_handler(s) ==
    LET b == s.buff
    IN IF on_first_line(Text(b), b.cursor) \/ StripNonEmpty(current_line(Text(b), b.cursor))
       THEN IF b.cs.open
            THEN CompleteNext(s)
            ELSE start_completion(s, TRUE)
       ELSE insert_text(s, Repeat(" ", TabWidth), FALSE)

escape_handler(s) == [s EXCEPT !.buff.cs = NoCompletion]

\* A Ctrl-Space that opens the menu on its first candidate (a variant of
\* c_space_handler).
c_space_selects_first(s) ==
    IF s.buff.cs.open
    THEN [s EXCEPT !.buff.cs = NoCompletion]
    ELSE start_completion(s, TRUE)

c_space_handler(s) ==
    IF s.buff.cs.open
    THEN [s EXCEPT !.buff.cs = NoCompletion]
    ELSE start_completion(s, FALSE)

c_j_handler(s) == CompleteNext(s)

\* A Ctrl-K that moves like Ctrl-J (a variant of c_k_handler).
c_k_goes_next(s) == CompleteNext(s)

c_k_handler(s) == CompletePrevious(s)

\* An accept that leaves the menu open (a variant of enter_accept_handler).
enter_accept_keeps_menu(s) == s

enter_accept_handler(s) == [s EXCEPT !.buff.cs = NoCompletion]

\* event.current_buffer.validate_and_handle(): the buffer is handed to the
\* accept handler, which ends the prompt (app.exit()); the text is kept.
enter_submit_handler(s) == [s EXCEPT !.log.submitted = @ + 1, !.done = TRUE]

\* A chord that submits the buffer like Enter (a variant of
\* escape_enter_handler).
escape_enter_submits(s) == [s EXCEPT !.log.submitted = @ + 1]

escape_enter_handler(s) == insert_text(s, <<"\n">>, TRUE)

c_p_handler(s, arg) == [s EXCEPT !.buff = history_backward(s.buff, arg)]

c_n_handler(s, arg) == [s EXCEPT !.buff = history_forward(s.buff, arg)]

\* suggestion = buff.suggestion; if suggestion: buff.insert_text(suggestion.text)
accept_suggestion_handler(s) ==
    IF s.buff.suggestion.some
    THEN insert_text(s, s.buff.suggestion.text, TRUE)
    ELSE s

\* buff.cursor_position += buff.document.get_cursor_right_position()
forward_handler(s) ==
    [s EXCEPT !.buff = SetCursor(s.buff,
        s.buff.cursor + get_cursor_right_position(Text(s.buff), s.buff.cursor))]

Handler(id, s, arg) ==
    CASE id = "f2" -> f2_handler(s)
      [] id = "f3" -> f3_handler(s)
      [] id = "f4" -> f4_handler(s)
      [] id = "f5" -> f5_handler(s)
      [] id = "tab" -> tab_handler(s)
      [] id = "escape" -> escape_handler(s)
      [] id = "c-space" -> c_space_handler(s)
      [] id = "c-j" -> c_j_handler(s)
      [] id = "c-k" -> c_k_handler(s)
      [] id = "enter_accept" -> enter_accept_handler(s)
      [] id = "enter_submit" -> enter_submit_handler(s)
      [] id = "escape_enter" -> escape_enter_handler(s)
      [] id = "c-p" -> c_p_handler(s, arg)
      [] id = "c-n" -> c_n_handler(s, arg)
      [] id \in {"l_accept", "right_accept"} -> accept_suggestion_handler(s)
      [] id \in {"l_move", "right_move"} -> forward_handler(s)

(***************************************************************************)
(* The key processor (prompt_toolkit KeyProcessor._process) over the       *)
(* table: the bindings of the pending keys whose filter holds, eager ones  *)
(* first, the last registered of them called; a key sequence that is the   *)
(* prefix of an enabled longer chord waits for the next key or a flush.    *)
(***************************************************************************)
\* The repeat count of an event: event.arg is 1 when no count was typed,
\* and 1 again when the count typed is a million or more.
ArgLimit == 1000000
NoArg == [given |-> FALSE, n |-> 1]
EventArg(a) == IF a.given /\ a.n < ArgLimit THEN a.n ELSE 1

Matches(keys, s, ev) ==
    SelectSeq(Bindings, LAMBDA b : b.keys = keys /\ Filter(b.id, s, ev))

\* KeyProcessor._get_matches(keys) raises: the filter of a binding of these
\* keys does.
MatchRaises(keys, s) ==
    \E i \in 1..Len(Bindings) : Bindings[i].keys = keys /\ FilterRaises(Bindings[i].id, s)

IsPrefixOfLongerMatch(keys, s, ev) ==
    \E i \in 1..Len(Bindings) :
        /\ Len(Bindings[i].keys) > Len(keys)
        /\ Take(Bindings[i].keys, Len(keys)) = keys
        /\ Filter(Bindings[i].id, s, ev)

\* KeyProcessor._fix_vi_cursor_position: in vi navigation mode the cursor is
\* never left behind the last character of a line that has characters.
fix_vi_cursor_position(s) ==
    LET b == s.buff
    IN IF /\ vi_navigation_mode(s)
          /\ is_cursor_at_the_end_of_line(Text(b), b.cursor)
          /\ Len(current_line(Text(b), b.cursor)) > 0
       THEN [s EXCEPT !.buff = SetCursor(b, b.cursor - 1)]
       ELSE s

\* KeyProcessor._leave_vi_temp_navigation_mode (the processor's count is
\* None once the handler was called).
leave_vi_temp_navigation_mode(s) ==
    IF s.editing_mode = "VI" /\ ~s.vi_state.operator_func
    THEN [s EXCEPT !.vi_state.temporary_navigation_mode = FALSE]
    ELSE s

\* KeyProcessor._call_handler once the handler h of a key pressed in the
\* state s has returned: the vi cursor position is corrected, then
\* temporary navigation mode is left when the key was pressed in it.  An
\* exception of the handler leaves the processor.
AfterHandler(s, h) ==
    LET was_temporary_navigation_mode == s.vi_state.temporary_navigation_mode
    IN IF Raised(h) THEN [h EXCEPT !.log.returned = h.buff]
       ELSE LET f == fix_vi_cursor_position([h EXCEPT !.log.returned = h.buff])
            IN IF was_temporary_navigation_mode
               THEN leave_vi_temp_navigation_mode(f) ELSE f

Call(s, id, arg) ==
    AfterHandler(s, Handler(id, [s EXCEPT !.log.fired = Append(@, id)], EventArg(arg)))

\* A selection that ignores the eager flag (a variant of Select).
SelectIgnoringEager(m) == m

\* When eager matches were found, give priority to them.
Select(m) ==
    LET eager == SelectSeq(m, LAMBDA b : b.eager)
    IN IF eager # <<>> THEN eager ELSE m

\* KeyProcessor._process on the pending keys buf.  An exception (of a
\* filter or of a handler) leaves process_keys, which resets the processor:
\* the pending keys are dropped.
RECURSIVE Process(_, _, _, _, _)
Process(s, buf, ev, flush, arg) ==
    IF Raised(s) THEN [s |-> s, buf |-> <<>>]
    ELSE IF buf = <<>> THEN [s |-> s, buf |-> buf]
    ELSE IF MatchRaises(buf, s)
    THEN [s |-> [s EXCEPT !.log.raised = "IndexError"], buf |-> <<>>]
    ELSE LET m == Matches(buf, s, ev)
             sel == Select(m)
             eager_found == sel # m \/ (m # <<>> /\ m[1].eager)
             prefix == ~flush /\ ~eager_found /\ IsPrefixOfLongerMatch(buf, s, ev)
         IN IF prefix THEN [s |-> s, buf |-> buf]
            ELSE IF sel # <<>>
            THEN [s |-> Call(s, Last(sel).id, arg), buf |-> <<>>]
            ELSE LET raising == {i \in 1..Len(buf) : MatchRaises(Take(buf, i), s)}
                     found == {i \in 1..Len(buf) :
                                  /\ i \notin raising
                                  /\ Matches(Take(buf, i), s, ev) # <<>>}
                     top == IF found = {} THEN 0
                            ELSE CHOOSE k \in found : \A j \in found : j <= k
                 IN IF \E i \in raising : i > top
                    THEN [s |-> [s EXCEPT !.log.raised = "IndexError"], buf |-> <<>>]
                    ELSE IF found # {}
                    THEN Process(Call(s, Last(Matches(Take(buf, top), s, ev)).id, arg),
                                 Drop(buf, top), ev, FALSE, NoArg)
                    ELSE Process(s, Tail(buf), ev, FALSE, arg)

(***************************************************************************)
(* Events.  A key event carries what the host supplies with a key: the     *)
(* repeat count and the values of the host-owned predicates; a candidate   *)
(* of the completer carries its start_position.  An input that nothing     *)
(* reads while the event is processed is left at its default.              *)
(***************************************************************************)
\* The counts typed: none, "-" (-1), 0 .. MaxArg, and a million.
Args == {NoArg} \cup {[given |-> TRUE, n |-> k] : k \in ((-1)..MaxArg) \cup {ArgLimit}}

DefaultEvent ==
    [arg |-> NoArg, sp |-> 0, searching |-> FALSE, bsh |-> FALSE, sml |-> FALSE]

EventInputs(key) ==
    {[arg |-> a, sp |-> 0, searching |-> se, bsh |-> bs, sml |-> sm] :
        a \in (IF key \in {"c-p", "c-n", "l", "right"} THEN Args ELSE {NoArg}),
        se \in (IF key = "enter" THEN BOOLEAN ELSE {FALSE}),
        bs \in (IF key = "enter" THEN BOOLEAN ELSE {FALSE}),
        sm \in (IF key = "escape" \/ (key = "enter" /\ key_buffer # <<>>)
                THEN BOOLEAN ELSE {FALSE})}

Commit(s) ==
    /\ pgcli' = s.pgcli
    /\ editing_mode' = s.editing_mode
    /\ vi_state' = s.vi_state
    /\ stdout' = s.stdout
    /\ term' = s.term
    /\ buff' = s.buff
    /\ background_tasks' = s.tasks
    /\ is_done' = s.done

\* What is remembered of an event: its kind and key, the keys that were
\* pending, the handlers it called, the bytes it wrote, the exception that
\* left it, the number of submissions, the buffer as the handler returned
\* it (before the key processor's corrections), the input mode set or read, whether
\* it repeats the key of the event before it, the inputs it came with, the
\* toggles, the input-mode storage, the terminal, the buffer and the
\* scheduled tasks before it, and, when it repeats the key of the event before it, the toggles before
\* that event.
Record(kind, key, mode, s, ev) ==
    [kind |-> kind, key |-> key, pending |-> key_buffer, mode |-> mode,
     fired |-> s.log.fired, out |-> s.log.out, raised |-> s.log.raised,
     submitted |-> s.log.submitted, returned |-> s.log.returned,
     repeat |-> (kind = "key" /\ last.kind = "key" /\ last.key = key),
     ev |-> ev,
     before |-> [pgcli |-> pgcli, editing_mode |-> editing_mode,
                 vi_state |-> vi_state, term |-> term, buff |-> buff,
                 tasks |-> background_tasks],
     before2 |-> IF kind = "key" /\ last.kind = "key" /\ last.key = key
                 THEN [pgcli |-> last.before.pgcli,
                       editing_mode |-> last.before.editing_mode]
                 ELSE [pgcli |-> pgcli, editing_mode |-> editing_mode]]

\* A key press, with the inputs ev, reaches the key processor, which
\* processes no key once the application is done.
FeedWith(key, ev) ==
    /\ ~is_done
    /\ \E r \in {Process(Cur, Append(key_buffer, key), ev, FALSE, ev.arg)} :
          /\ Len(Text(r.s.buff)) <= MaxText
          /\ Len(r.s.tasks) <= MaxTasks
          /\ Commit(r.s)
          /\ key_buffer' = r.buf
          /\ last' = Record("key", key, "none", r.s, ev)

Feed(key) == \E ev \in EventInputs(key) : FeedWith(key, ev)

\* The input timeout flushes the pending keys.
Flush ==
    /\ ~is_done
    /\ key_buffer # <<>>
    /\ \E r \in {Process(Cur, key_buffer, DefaultEvent, TRUE, NoArg)} :
          /\ Commit(r.s)
          /\ key_buffer' = r.buf
          /\ last' = Record("flush", "none", "none", r.s, DefaultEvent)

PressF2 == /\ Feed("f2")
PressF3 == /\ Feed("f3")
PressF4 == /\ Feed("f4")
PressF5 == /\ Feed("f5")
PressTab == /\ Feed("tab")
PressEscape == /\ Feed("escape")
PressCtrlSpace == /\ Feed("c-space")
PressCtrlJ == /\ Feed("c-j")
PressCtrlK == /\ Feed("c-k")
PressEnter == /\ Feed("enter")
PressCtrlP == /\ Feed("c-p")
PressCtrlN == /\ Feed("c-n")
PressL == /\ Feed("l")
PressRight == /\ Feed("right")

\* l with no repeat count typed.
PressLOnce == /\ FeedWith("l", DefaultEvent)

(***************************************************************************)
(* Environment: the rest of the editor.                                    *)
(***************************************************************************)
\* vi_state.input_mode = mode
SetInputMode(mode) ==
    \E s \in {AssignInputMode(Cur, mode)} :
       /\ Commit(s)
       /\ last' = Record("set_mode", "none", mode, s, DefaultEvent)
       /\ UNCHANGED key_buffer

\* setup_vim_cursor_shapes() is called by the host, outside a key event:
\* the ViState class is patched (again) and nothing else changes.
SetupVimCursorShapes ==
    \E s \in {setup_vim_cursor_shapes(Cur)} :
       /\ Commit(s)
       /\ last' = Record("setup", "none", "none", s, DefaultEvent)
       /\ UNCHANGED key_buffer

\* vi_state.input_mode is read.
ReadInputMode ==
    /\ last' = Record("get_mode", "none", GetInputMode(Cur), Cur, DefaultEvent)
    /\ UNCHANGED <<pgcli, editing_mode, vi_state, stdout, term, buff, background_tasks,
                   key_buffer, is_done>>

\* The texts a suggestion can have, and the answers of the suggester (None
\* included).
Suggestions == {<<>>, <<"a">>}
Answers == {NoSuggestion} \cup {[some |-> TRUE, text |-> t] : t \in Suggestions}

\* A step of a background task, which writes the buffer only.  A task
\* scheduled before the application was done still runs after it.
Env(kind, b, tasks, ev) ==
    /\ buff' = b
    /\ background_tasks' = tasks
    /\ last' = Record(kind, "none", "none", [Cur EXCEPT !.log.returned = b], ev)
    /\ UNCHANGED <<pgcli, editing_mode, vi_state, stdout, term, key_buffer, is_done>>

\* The event loop starts the completer task scheduled first.
CompleterStart ==
    /\ background_tasks # <<>>
    /\ Head(background_tasks) \in {"complete", "complete_first"}
    /\ Env("completer_start",
           async_completer_start(buff, Head(background_tasks) = "complete_first"),
           Tail(background_tasks), DefaultEvent)

\* The completer's generator yields a candidate to the running coroutine,
\* which appends it to the completion state it installed.  The candidates
\* of one run have the same start_position, one of sps that reaches no
\* further back than the text before the cursor.
CompleterYields(sps) ==
    /\ buff.completer.running
    /\ buff.cs.open
    /\ buff.cs.n < MaxCands
    /\ \E sp \in (IF buff.cs.n = 0
                   THEN {p \in sps : -p <= Len(buff.completer.before)}
                   ELSE {buff.cs.sp}) :
          Env("completer_yield", async_completer_yield(buff, sp), background_tasks,
              [DefaultEvent EXCEPT !.sp = sp])

CompleterYield == /\ CompleterYields(StartPositions)

\* The completer yields a candidate to insert at the cursor.
CompleterYieldInsert == /\ CompleterYields({0})

\* The completer's generator is exhausted, or the coroutine has found at a
\* candidate that its completion state was dropped: the coroutine goes on
\* to its end.
CompleterEnd ==
    /\ buff.completer.running
    /\ \E b \in {async_completer_end(buff)} :
          /\ Len(Text(b)) <= MaxText
          /\ Env("completer_end", b, background_tasks, DefaultEvent)

\* The event loop starts the suggester task scheduled first.
SuggesterStart ==
    /\ background_tasks # <<>>
    /\ Head(background_tasks) = "suggest"
    /\ Env("suggester_start", async_suggester_start(buff), Tail(background_tasks),
           DefaultEvent)

\* The suggester has answered the running coroutine.
SuggesterEnd ==
    /\ buff.suggester.running
    /\ \E answer \in Answers :
          Env("suggester_end", async_suggester_end(buff, answer), background_tasks,
              DefaultEvent)

\* A key bound by prompt_toolkit's own bindings reaches the key processor
\* with no key pending: its handler leaves h, and the key processor goes on
\* as after every handler.
HostKey(key, h) ==
    /\ ~is_done
    /\ key_buffer = <<>>
    /\ \E s \in {AfterHandler(Cur, h)} :
          /\ Commit(s)
          /\ last' = Record("host", key, "none", s, DefaultEvent)
    /\ UNCHANGED key_buffer

\* Buffer.start_selection() through a binding of the host.  In vi mode: v,
\* bound in navigation mode.  In emacs mode: shift-left and shift-right,
\* which start a selection on a buffer that has text, move the cursor one
\* position in the line and drop the selection again when the cursor did
\* not move.
SelectText ==
    /\ ~buff.selection
    /\ IF editing_mode = "VI"
       THEN /\ vi_navigation_mode(Cur)
            /\ HostKey("v", [Cur EXCEPT !.buff = SetSelection(buff, TRUE)])
       ELSE \/ /\ get_cursor_right_position(Text(buff), buff.cursor) > 0
               /\ HostKey("s-right",
                          [Cur EXCEPT !.buff = SetCursor(SetSelection(buff, TRUE),
                                                         buff.cursor + 1)])
            \/ /\ current_line_before_cursor(Text(buff), buff.cursor) # <<>>
               /\ HostKey("s-left",
                          [Cur EXCEPT !.buff = SetCursor(SetSelection(buff, TRUE),
                                                         buff.cursor - 1)])

\* Buffer.exit_selection() through a binding of the host.  In emacs mode:
\* Ctrl-G, bound while text is selected.  In vi mode: Escape (which
\* pgcli's Escape binding precedes while the menu has candidates), whose
\* handler also moves the cursor left in the line when the input mode reads
\* INSERT or REPLACE and assigns NAVIGATION to the input mode.
UnselectText ==
    /\ buff.selection
    /\ IF editing_mode = "VI"
       THEN /\ ~has_completions(Cur)
            /\ LET left == IF GetInputMode(Cur) \in {"INSERT", "REPLACE"}
                              /\ current_line_before_cursor(Text(buff), buff.cursor) # <<>>
                           THEN 1 ELSE 0
                   moved == [Cur EXCEPT !.buff = SetCursor(buff, buff.cursor - left)]
                   set == AssignInputMode(moved, "NAVIGATION")
               IN HostKey("escape",
                          IF Raised(set) THEN set
                          ELSE [set EXCEPT !.buff = SetSelection(set.buff, FALSE)])
       ELSE HostKey("c-g", [Cur EXCEPT !.buff = SetSelection(buff, FALSE)])

\* The vi bindings of the host that write the flags of the ViState, by the
\* key and the flags their handler leaves.  While an operator is pending, a
\* text object applies it (the operator is y, which copies and leaves the
\* buffer as it is).  While a digraph is awaited, its second character ends
\* the wait (the two characters name no digraph: nothing is inserted).  In
\* navigation mode the operator key y leaves the operator pending, and in
\* temporary navigation mode yy copies the line.  In insert and replace
\* mode Ctrl-O enters temporary navigation mode and Ctrl-K, unless pgcli's
\* binding of it precedes, waits for a digraph.
ViFlags(s) ==
    LET now == [key |-> "none",
                operator_func |-> s.vi_state.operator_func,
                waiting_for_digraph |-> s.vi_state.waiting_for_digraph,
                temporary_navigation_mode |-> s.vi_state.temporary_navigation_mode]
        inserting == /\ ~s.buff.selection /\ ~s.buff.read_only
                     /\ ~now.temporary_navigation_mode
                     /\ GetInputMode(s) \in {"INSERT", "REPLACE"}
    IN IF now.operator_func
       THEN {[now EXCEPT !.key = "text_object", !.operator_func = FALSE]}
       ELSE IF now.waiting_for_digraph
       THEN {[now EXCEPT !.key = "digraph", !.waiting_for_digraph = FALSE]}
       ELSE IF vi_navigation_mode(s)
       THEN {[now EXCEPT !.key = "y", !.operator_func = TRUE]}
            \cup (IF now.temporary_navigation_mode
                  THEN {[now EXCEPT !.key = "yy"]} ELSE {})
       ELSE IF inserting
       THEN {[now EXCEPT !.key = "c-o", !.temporary_navigation_mode = TRUE]}
            \cup (IF ~has_completions(s)
                  THEN {[now EXCEPT !.key = "c-k", !.waiting_for_digraph = TRUE]}
                  ELSE {})
       ELSE {}

\* A key of the host's vi bindings that writes the flags of the ViState.
ViCommand ==
    /\ editing_mode = "VI"
    /\ \E f \in ViFlags(Cur) :
          HostKey(f.key,
                  [Cur EXCEPT !.vi_state.operator_func = f.operator_func,
                              !.vi_state.waiting_for_digraph = f.waiting_for_digraph,
                              !.vi_state.temporary_navigation_mode =
                                  f.temporary_navigation_mode])

(***************************************************************************)
(* Initial states.                                                         *)
(***************************************************************************)
\* History entries older than the working line.
HistLen == 3
History == [i \in 1..HistLen |-> IF i % 2 = 1 THEN <<"a">> ELSE <<"a", "\n", "a">>]

InitTexts ==
    {<<>>, <<"a">>, <<" ">>, <<"\n">>, <<"\n", " ">>, <<"\n", "\t">>, <<"\n", "U+000B">>}

NoEvent ==
    [kind |-> "init", key |-> "none", pending |-> <<>>, mode |-> "none",
     fired |-> <<>>, out |-> <<>>, raised |-> "none", submitted |-> 0,
     returned |-> buff, repeat |-> FALSE, ev |-> DefaultEvent,
     before |-> [pgcli |-> pgcli, editing_mode |-> editing_mode,
                 vi_state |-> vi_state, term |-> term, buff |-> buff,
                 tasks |-> background_tasks],
     before2 |-> [pgcli |-> pgcli, editing_mode |-> editing_mode]]

\* The settings of the buffer: whether it completes while typing and
\* whether it has a suggester.  Completing is what pgcli's session is built
\* with both of.
Configs == [complete_while_typing : BOOLEAN, auto_suggest : BOOLEAN]
Completing == [complete_while_typing |-> TRUE, auto_suggest |-> TRUE]
Suggesting == [complete_while_typing |-> FALSE, auto_suggest |-> TRUE]
CompletingOnly == [complete_while_typing |-> TRUE, auto_suggest |-> FALSE]

\* A buffer at rest: the text t over the history, no completion state, no
\* suggestion, no selection, the completer not running.  The buffers of the
\* session are not read-only.
NewBuffer(history, t, c, config) ==
    [lines |-> Append(history, t), widx |-> Len(history) + 1, cursor |-> c,
     cs |-> NoCompletion, suggestion |-> NoSuggestion, selection |-> FALSE,
     read_only |-> FALSE,
     complete_while_typing |-> config.complete_while_typing,
     auto_suggest |-> config.auto_suggest,
     completer |-> NotRunning, suggester |-> NotSuggesting]

\* The buffers at rest with one of the texts, the cursor anywhere in it.
BuffersOf(history, texts, configs) ==
    {b \in {NewBuffer(history, t, c, config) :
                t \in texts, c \in 0..MaxText, config \in configs} :
        b.cursor <= Len(Text(b))}

InitBuffers(history, configs) == BuffersOf(history, InitTexts, configs)

NewViState ==
    [patched |-> FALSE, attached |-> 0, orig_mode |-> "INSERT", inst_mode |-> "unset",
     operator_func |-> FALSE, waiting_for_digraph |-> FALSE,
     temporary_navigation_mode |-> FALSE]

\* The whole system, from startup: the flags come from the configuration,
\* the editing mode follows vi_mode, the ViState class is not yet patched,
\* nothing is scheduled.
Init ==
    /\ pgcli \in [smart_completion : BOOLEAN, multi_line : BOOLEAN,
                  vi_mode : BOOLEAN, explain_mode : BOOLEAN]
    /\ editing_mode = IF pgcli.vi_mode THEN "VI" ELSE "EMACS"
    /\ vi_state = NewViState
    /\ stdout = "ok"
    /\ term = <<>>
    /\ buff \in InitBuffers(History, {Completing})
    /\ background_tasks = <<>>
    /\ key_buffer = <<>>
    /\ is_done = FALSE
    /\ last = NoEvent

Next ==
    \/ PressF2 \/ PressF3 \/ PressF4 \/ PressF5
    \/ PressTab \/ PressEscape \/ PressCtrlSpace \/ PressCtrlJ \/ PressCtrlK
    \/ PressEnter \/ PressCtrlP \/ PressCtrlN \/ PressL \/ PressRight
    \/ Flush
    \/ CompleterStart \/ CompleterYield \/ CompleterEnd \/ SuggesterStart \/ SuggesterEnd
    \/ \E m \in InputModes : SetInputMode(m)
    \/ ReadInputMode
    \/ SetupVimCursorShapes
    \/ SelectText \/ UnselectText \/ ViCommand

Spec == Init /\ [][Next]_vars

(***************************************************************************)
(* The parts of the system.  The toggle keys and the input-mode property   *)
(* write the pgcli flags, the editing mode, the ViState storage and the    *)
(* terminal; the buffer keys write the buffer, the scheduled tasks and the *)
(* key buffer and read, of the rest, only the editing mode and the ViState.*)
(* Each part is explored on its own, its Init drawing the variables its    *)
(* actions do not write from values the whole system reaches.              *)
(***************************************************************************)
EmptyBuffer == NewBuffer(<<>>, <<>>, 0, Completing)

InitToggle ==
    /\ pgcli \in [smart_completion : BOOLEAN, multi_line : BOOLEAN,
                  vi_mode : BOOLEAN, explain_mode : BOOLEAN]
    /\ editing_mode = IF pgcli.vi_mode THEN "VI" ELSE "EMACS"
    /\ vi_state = NewViState
    /\ stdout \in StreamStates
    /\ term = <<>>
    /\ buff = EmptyBuffer
    /\ background_tasks = <<>>
    /\ key_buffer = <<>>
    /\ is_done = FALSE
    /\ last = NoEvent

NextToggle ==
    \/ PressF2 \/ PressF3 \/ PressF4 \/ PressF5
    \/ \E m \in InputModes : SetInputMode(m)
    \/ ReadInputMode
    \/ SetupVimCursorShapes

SpecToggle == InitToggle /\ [][NextToggle]_vars

\* Startup in emacs mode; startup in vi mode; vi mode after Escape has put
\* the editor in NAVIGATION; emacs mode entered with F4 from there (the
\* stored input mode stays NAVIGATION and the beam reset has been written);
\* vi mode entered with F4 from emacs and put in NAVIGATION through the
\* patched property.
InitModes ==
    { [vi |-> FALSE, patched |-> FALSE, mode |-> "INSERT", inst |-> "unset", term |-> <<>>],
      [vi |-> TRUE, patched |-> FALSE, mode |-> "INSERT", inst |-> "unset", term |-> <<>>],
      [vi |-> TRUE, patched |-> FALSE, mode |-> "NAVIGATION", inst |-> "unset", term |-> <<>>],
      [vi |-> FALSE, patched |-> FALSE, mode |-> "NAVIGATION", inst |-> "unset",
       term |-> BeamReset],
      [vi |-> TRUE, patched |-> TRUE, mode |-> "INSERT", inst |-> "NAVIGATION",
       term |-> EscapeSeq(1)] }

\* The editor at rest between two key presses, or, when typed is true, just
\* after the user has typed the last character of the text (insert_text has
\* scheduled its tasks).  In vi navigation mode the key processor has left
\* the cursor on a character.
InitEditWith(modes, buffers, typed) ==
    /\ \E m \in modes :
        /\ pgcli = [smart_completion |-> TRUE, multi_line |-> FALSE,
                    vi_mode |-> m.vi, explain_mode |-> FALSE]
        /\ vi_state = [NewViState EXCEPT !.patched = m.patched,
                                         !.attached = IF m.patched THEN 1 ELSE 0,
                                         !.orig_mode = m.mode, !.inst_mode = m.inst]
        /\ term = m.term
    /\ editing_mode = IF pgcli.vi_mode THEN "VI" ELSE "EMACS"
    /\ stdout = "ok"
    /\ buff \in buffers
    /\ \E ty \in typed :
          background_tasks = IF ty /\ Text(buff) # <<>> THEN InsertTasks(buff) ELSE <<>>
    /\ key_buffer = <<>>
    /\ is_done = FALSE
    /\ last = NoEvent
    /\ fix_vi_cursor_position(Cur) = Cur

\* The completion and Enter keys with the completer.
InitMenu ==
    InitEditWith({m \in InitModes : ~m.patched /\ m.mode = "INSERT"},
                 InitBuffers(<<>>, {Completing}), {FALSE})

NextMenu ==
    \/ PressTab \/ PressEscape \/ PressCtrlSpace \/ PressCtrlJ \/ PressCtrlK
    \/ PressEnter
    \/ Flush
    \/ CompleterStart \/ CompleterYield \/ CompleterEnd \/ SuggesterStart \/ SuggesterEnd

SpecMenu == InitMenu /\ [][NextMenu]_vars

\* Tab and Ctrl-Space, the keys that open a completion session, with the
\* completer.  No binding of these keys leaves a key pending.
InitTab ==
    InitEditWith({m \in InitModes : ~m.vi /\ ~m.patched /\ m.mode = "INSERT"},
                 InitBuffers(<<>>, {Completing}), {FALSE})

NextTab ==
    \/ PressTab \/ PressCtrlSpace
    \/ CompleterStart \/ CompleterYield \/ CompleterEnd

SpecTab == InitTab /\ [][NextTab]_vars

\* Enter with the two keys that open the completion menu, and the
\* completer.
InitEnter ==
    InitEditWith({m \in InitModes : ~m.vi /\ ~m.patched /\ m.mode = "INSERT"},
                 {b \in InitBuffers(<<>>, {Completing}) : Text(b) \in {<<>>, <<"a">>}},
                 {FALSE})

NextEnter ==
    \/ PressTab \/ PressCtrlSpace \/ PressEnter
    \/ CompleterStart \/ CompleterYield \/ CompleterEnd

SpecEnter == InitEnter /\ [][NextEnter]_vars

\* Escape, Enter and the chord of the two, in emacs and in vi mode, just
\* after the user has typed the text into a buffer that completes while
\* typing: the completer is scheduled, its menu enables the Escape binding
\* and Ctrl-J highlights a candidate of it.
ChordTexts == {<<"a", "a", "a", "a">>}

InitChord ==
    InitEditWith({m \in InitModes : ~m.patched /\ m.mode = "INSERT"},
                 {b \in BuffersOf(<<>>, ChordTexts, {CompletingOnly}) : b.cursor \in {2, 4}},
                 {TRUE})

NextChord ==
    \/ PressEscape \/ PressEnter \/ Flush
    \/ PressCtrlJ
    \/ CompleterStart \/ CompleterYieldInsert \/ CompleterEnd

SpecChord == InitChord /\ [][NextChord]_vars

\* Forward movement and suggestion acceptance, with the suggester, the
\* selection and the vi commands of the environment.
MoveTexts == {<<>>, <<"a">>, <<"a", "a">>, <<"\n">>}

InitMove == InitEditWith(InitModes, BuffersOf(<<>>, MoveTexts, {Suggesting}), {TRUE})

NextMove ==
    \/ PressL \/ PressRight
    \/ SuggesterStart \/ SuggesterEnd
    \/ SelectText \/ UnselectText \/ ViCommand

SpecMove == InitMove /\ [][NextMove]_vars

\* The history keys, on a buffer with history.  No binding of these keys
\* reads the editing mode or the input mode.
HistoryTexts == {<<>>, <<"a">>}

InitHistory ==
    InitEditWith({m \in InitModes : ~m.patched /\ m.mode = "INSERT"},
                 BuffersOf(History, HistoryTexts, {Suggesting}), {TRUE})

NextHistory ==
    \/ PressCtrlP \/ PressCtrlN
    \/ SuggesterStart \/ SuggesterEnd
    \/ SelectText \/ UnselectText

SpecHistory == InitHistory /\ [][NextHistory]_vars

\* The chords with two bindings, Enter and the forward key l, in vi
\* navigation mode, with the keys and the environment that make their
\* filters true.
DispatchTexts == {<<"a", "a", "a", "a", "\n">>}

InitDispatch ==
    InitEditWith({m \in InitModes : m.vi /\ ~m.patched /\ m.mode = "NAVIGATION"},
                 {b \in BuffersOf(<<>>, DispatchTexts, {Suggesting}) :
                     b.cursor \in {3, Len(Text(b))}},
                 {TRUE})

NextDispatch ==
    \/ PressEnter \/ PressCtrlSpace \/ PressCtrlJ
    \/ PressLOnce
    \/ CompleterStart \/ CompleterYieldInsert \/ CompleterEnd
    \/ SuggesterStart \/ SuggesterEnd

SpecDispatch == InitDispatch /\ [][NextDispatch]_vars

\* The toggle keys together with the key that opens the completion menu
\* and moves in it, from vi navigation mode with an empty buffer.
InitFrame ==
    InitEditWith({m \in InitModes : m.vi /\ ~m.patched /\ m.mode = "NAVIGATION"},
                 {b \in InitBuffers(<<>>, {Completing}) : Text(b) = <<>>}, {FALSE})

NextFrame ==
    \/ PressF2 \/ PressF3 \/ PressF4 \/ PressF5
    \/ PressTab
    \/ CompleterStart \/ CompleterYieldInsert \/ CompleterEnd

SpecFrame == InitFrame /\ [][NextFrame]_vars

\* The keys that open the completion menu, move in it and close it, in
\* emacs mode and in vi navigation mode, with the completer.
InitNavigate ==
    InitEditWith({m \in InitModes : ~m.patched /\ (m.vi <=> m.mode = "NAVIGATION")},
                 {b \in InitBuffers(<<>>, {Completing}) : Text(b) \in {<<>>, <<"a">>}},
                 {FALSE})

NextNavigate ==
    \/ PressCtrlSpace \/ PressCtrlJ \/ PressCtrlK
    \/ PressEscape \/ Flush
    \/ CompleterStart \/ CompleterYield \/ CompleterEnd

SpecNavigate == InitNavigate /\ [][NextNavigate]_vars

(***************************************************************************)
(* Properties.  They are stated over the record of the last event: the     *)
(* state before it (last.before), its inputs (last.ev), the handlers it    *)
(* called (last.fired), the buffer as the handler returned it              *)
(* (last.returned) and the state the event left (the variables).  What a   *)
(* key press does to the buffer is stated on the state it left: in vi      *)
(* navigation mode the key processor moves the cursor back one position    *)
(* when the handler left it behind the last character of a line, which     *)
(* also drops the completion state.                                        *)
(***************************************************************************)

\* The state the last event started from.
Before ==
    [Cur EXCEPT !.pgcli = last.before.pgcli, !.editing_mode = last.before.editing_mode,
                !.vi_state = last.before.vi_state, !.buff = last.before.buff,
                !.tasks = last.before.tasks]

\* The buffer as the handler of the last event returned it.
Ret == last.returned

BText == Text(last.before.buff)
BCursor == last.before.buff.cursor

\* text with data inserted at position cursor
Inserted(text, cursor, data) == Take(text, cursor) \o data \o Drop(text, cursor)

\* The last event is a press of key k.
Pressed(k) == last.kind = "key" /\ last.key = k

\* The last event is a press of key k with no key pending before it.
BareKey(k) == Pressed(k) /\ last.pending = <<>>

Fired(id) == \E i \in 1..Len(last.fired) : last.fired[i] = id

\* A candidate is highlighted: the completion state selects a candidate of
\* its list.
Highlighted(s) == s.buff.cs.open /\ s.buff.cs.index \in 0..(s.buff.cs.n - 1)

\* The completion state selects a candidate although its list is empty: the
\* completer emptied the list, at its end, under the selection (its only
\* candidate was the text already there).  Reading the selected candidate
\* raises IndexError.
Emptied(cs) == cs.open /\ cs.n = 0 /\ cs.index # -1

\* The number of characters of the current line that follow the cursor.
Ahead(text, cursor) == Len(current_line(text, cursor)) - Len(current_line_before_cursor(text, cursor))

\* The cursor is behind the last character of a line that has characters.
BehindLastChar(text, cursor) ==
    Ahead(text, cursor) = 0 /\ Len(current_line(text, cursor)) > 0

\* C1: when the editor is in vi navigation mode (the vi_navigation_mode
\* filter holds), a suggestion is pending and the cursor is at the end of
\* the current line, pressing l or right calls the eager accept binding
\* only: the suggestion's text is inserted at the cursor, the handler
\* leaves the cursor behind it, and the plain forward-movement handler of
\* the chord does not run.
C1_EagerAcceptPreempts ==
    \A k \in {"l", "right"} :
        (Pressed(k) /\ vi_navigation_mode(Before) /\ has_suggestion_at_end(Before))
        => /\ last.fired = <<IF k = "l" THEN "l_accept" ELSE "right_accept">>
           /\ ~Fired("l_move") /\ ~Fired("right_move")
           /\ Text(Ret) = Inserted(BText, BCursor, last.before.buff.suggestion.text)
           /\ Ret.cursor = BCursor + Len(last.before.buff.suggestion.text)
           /\ Text(buff) = Text(Ret)

\* C1 witness: l accepted the suggestion "a" at the end of a line that is
\* followed by another line.
C1_Witness ==
    /\ Pressed("l") /\ last.fired = <<"l_accept">>
    /\ vi_navigation_mode(Before) /\ has_suggestion_at_end(Before)
    /\ last.before.buff.suggestion.text = <<"a">>
    /\ BCursor < Len(BText)
    /\ Text(buff) = Inserted(BText, BCursor, <<"a">>)

\* C2 (amended): in vi navigation mode with no pending suggestion, pressing
\* l or right calls the plain movement binding alone, for every repeat
\* count, and leaves the text as it is.  The handler moves the cursor right
\* by one position when a character of the current line follows it and
\* leaves it where it is at the end of the line.  After the key press the
\* cursor is one position to the right only when at least two characters
\* of the line followed it: from the last character of a line it is back
\* on that character, on an empty line it has not moved, and from behind
\* the last character of a line it is on that character.
C2_ForwardWithinLine ==
    \A k \in {"l", "right"} :
        (Pressed(k) /\ vi_navigation_mode(Before) /\ ~last.before.buff.suggestion.some)
        => /\ last.fired = <<IF k = "l" THEN "l_move" ELSE "right_move">>
           /\ Text(buff) = BText
           /\ Ret.cursor = IF Ahead(BText, BCursor) = 0 THEN BCursor ELSE BCursor + 1
           /\ buff.cursor = IF Ahead(BText, BCursor) >= 2 THEN BCursor + 1
                            ELSE IF Ahead(BText, BCursor) = 1 THEN BCursor
                            ELSE IF BehindLastChar(BText, BCursor) THEN BCursor - 1
                            ELSE BCursor

\* C2 witness: right, with the repeat count 2, left the cursor one position
\* to the right.
C2_Witness ==
    /\ Pressed("right") /\ last.fired = <<"right_move">>
    /\ ~last.before.buff.suggestion.some
    /\ last.ev.arg.given /\ last.ev.arg.n = 2
    /\ buff.cursor = BCursor + 1

\* C2 second witness: l on the last character of a line left the cursor on
\* it.
C2_WitnessLastCharacter ==
    /\ Pressed("l") /\ last.fired = <<"l_move">>
    /\ ~last.before.buff.suggestion.some
    /\ Ahead(BText, BCursor) = 1
    /\ Ret.cursor = BCursor + 1 /\ buff.cursor = BCursor

\* C2 third witness: l on an empty line left the cursor where it was.
C2_WitnessEmptyLine ==
    /\ Pressed("l") /\ last.fired = <<"l_move">>
    /\ ~last.before.buff.suggestion.some
    /\ current_line(BText, BCursor) = <<>> /\ BText # <<>>
    /\ buff.cursor = BCursor

\* C2 as first stated: in vi navigation mode with no pending suggestion,
\* pressing l or right moves the cursor right by exactly one position from
\* every cursor position, the end of the line included.
C2_Original ==
    \A k \in {"l", "right"} :
        (Pressed(k) /\ vi_navigation_mode(Before) /\ ~last.before.buff.suggestion.some)
        => buff.cursor = BCursor + 1

\* C3: when a completion candidate is highlighted, a bare Enter calls the
\* accept binding only: the completion state becomes empty, the text with
\* the candidate applied and the cursor stay, and the buffer is not
\* submitted, whatever the search state and the submission predicate are.
C3_EnterAcceptsCompletion ==
    (BareKey("enter") /\ Highlighted(Before))
    => /\ last.fired = <<"enter_accept">>
       /\ Ret.cs = NoCompletion /\ buff.cs = NoCompletion
       /\ last.submitted = 0
       /\ Text(buff) = BText /\ Ret.cursor = BCursor

\* C3 witness: Enter closed the menu on a highlighted candidate while no
\* search was active and the submission predicate held.
C3_Witness ==
    /\ BareKey("enter") /\ Highlighted(Before)
    /\ ~last.ev.searching /\ last.ev.bsh
    /\ last.fired = <<"enter_accept">> /\ ~buff.cs.open
    /\ BText # last.before.buff.cs.otext

\* The guard of the submitting Enter binding, on the state before the event.
SubmitGuard ==
    /\ ~Highlighted(Before)
    /\ ~last.ev.searching
    /\ last.ev.bsh

\* C4: a bare Enter submits the buffer, exactly once, if and only if no
\* candidate is highlighted, no search is active and the submission
\* predicate holds; at most one of the two Enter bindings is called for an
\* Enter press; when neither guard holds no binding is called and nothing
\* changes.
C4_EnterSubmitsIff ==
    BareKey("enter")
    => /\ last.submitted = (IF SubmitGuard THEN 1 ELSE 0)
       /\ SubmitGuard <=> last.fired = <<"enter_submit">>
       /\ Highlighted(Before) <=> last.fired = <<"enter_accept">>
       /\ Len(last.fired) <= 1
       /\ (~SubmitGuard /\ ~Highlighted(Before))
            => (last.fired = <<>> /\ buff = last.before.buff /\ key_buffer = <<>>)

\* C4, the part the code keeps: the statement of C4 in every state but
\* those whose completion state selects a candidate of an emptied list,
\* where Enter raises IndexError, calls no binding and changes nothing.
C4_EnterSubmitsIffReadable ==
    BareKey("enter")
    => IF Emptied(last.before.buff.cs)
       THEN /\ last.raised = "IndexError" /\ last.fired = <<>>
            /\ last.submitted = 0 /\ buff = last.before.buff
       ELSE /\ last.raised = "none"
            /\ last.submitted = (IF SubmitGuard THEN 1 ELSE 0)
            /\ SubmitGuard <=> last.fired = <<"enter_submit">>
            /\ Highlighted(Before) <=> last.fired = <<"enter_accept">>
            /\ Len(last.fired) <= 1
            /\ (~SubmitGuard /\ ~Highlighted(Before))
                 => (last.fired = <<>> /\ buff = last.before.buff /\ key_buffer = <<>>)

\* C4 witness: Enter submitted a buffer whose completion menu was open with
\* no candidate highlighted.
C4_Witness ==
    /\ BareKey("enter") /\ SubmitGuard
    /\ last.before.buff.cs.open
    /\ last.fired = <<"enter_submit">> /\ last.submitted = 1

\* C4 second witness: Enter, with no search active and the submission
\* predicate true, raised on a completion state whose list was emptied under
\* the selection, and did not submit.
C4_WitnessEmptied ==
    /\ BareKey("enter") /\ Emptied(last.before.buff.cs)
    /\ ~last.ev.searching /\ last.ev.bsh
    /\ last.raised = "IndexError" /\ last.submitted = 0

\* The completion state after Tab on an open session: the next candidate,
\* no candidate after the last, and the state as it is while the completer
\* has delivered no candidate.
Advanced(cs) ==
    IF cs.n = 0 THEN cs ELSE [cs EXCEPT !.index = IF @ = cs.n - 1 THEN -1 ELSE @ + 1]

\* The characters str.strip() removes.
Blank(c) ==
    \/ c \in {" ", "\n", "\t", "\r", "\f", "U+000B", "U+0085", "U+00A0", "U+1680"}
    \/ c \in {"U+001C", "U+001D", "U+001E", "U+001F"}
    \/ c \in {"U+2000", "U+2001", "U+2002", "U+2003", "U+2004", "U+2005", "U+2006",
               "U+2007", "U+2008", "U+2009", "U+200A"}
    \/ c \in {"U+2028", "U+2029", "U+202F", "U+205F", "U+3000"}

\* The line holds a character other than whitespace.
Visible(line) == \E i \in 1..Len(line) : ~Blank(line[i])

\* The last event is the first candidate the completer delivered to a
\* session started with select_first = sf: the menu opens.
Opened(sf) ==
    /\ last.kind = "completer_yield"
    /\ last.before.buff.completer.select_first = sf
    /\ last.before.buff.cs.open /\ last.before.buff.cs.n = 0
    /\ buff.cs.open /\ buff.cs.n > 0

\* The last event is the end of the completer's run for a session started
\* with select_first = sf, whose menu shows candidates of which the user
\* has selected none.
Finished(sf) ==
    /\ last.kind = "completer_end"
    /\ last.before.buff.completer.running
    /\ last.before.buff.completer.select_first = sf
    /\ last.before.buff.cs.open /\ last.before.buff.cs.n > 0
    /\ last.before.buff.cs.index = -1

\* The one candidate of the session is the very text it would replace.
OnlyRepeats(b) ==
    /\ b.cs.n = 1
    /\ LET before == Take(b.cs.otext, b.cs.ocur)
       IN /\ -b.cs.sp <= Len(before)
          /\ SubSeq(before, Len(before) + b.cs.sp + 1, Len(before)) = <<"a">>

\* C5 (amended): when the current line holds a character that is not
\* whitespace or the cursor is on the first line, a bare Tab inserts no
\* indent.  With no session open it leaves the buffer as it is and starts a
\* session with select_first set.  While the completer delivers candidates
\* to that session none is selected; when the completer comes to its end
\* with the user having selected none, the first candidate is applied and
\* selected, unless the only candidate is the text already there (the
\* session is then closed).  With a session open Tab moves that session to
\* the next candidate (to none after the last; nowhere while no candidate
\* is delivered) and starts no new one; on a session whose list was emptied
\* under the selection it raises IndexError and changes nothing.  On a line
\* of whitespace only that is not the first line Tab inserts the 4-space
\* indent.
C5_TabCompletes ==
    /\ (BareKey("tab") /\ (on_first_line(BText, BCursor)
                               \/ Visible(current_line(BText, BCursor))))
       => IF Emptied(last.before.buff.cs)
          THEN /\ last.raised = "IndexError"
               /\ buff = last.before.buff /\ background_tasks = last.before.tasks
          ELSE /\ last.fired = <<"tab">> /\ last.raised = "none"
               /\ buff = Ret
               /\ IF last.before.buff.cs.open
                  THEN /\ Ret.cs = Advanced(last.before.buff.cs)
                       /\ Text(Ret) = NewText(Ret.cs) /\ Ret.cursor = NewCursor(Ret.cs)
                       /\ background_tasks = last.before.tasks
                  ELSE /\ Ret = last.before.buff
                       /\ background_tasks = Append(last.before.tasks, "complete_first")
    /\ Opened(TRUE)
       => /\ buff.cs.index = -1
          /\ Text(buff) = BText /\ buff.cursor = BCursor
    /\ Finished(TRUE)
       => IF OnlyRepeats(last.before.buff)
          THEN buff.cs = NoCompletion /\ Text(buff) = BText /\ buff.cursor = BCursor
          ELSE /\ buff.cs.open /\ buff.cs.index = 0
               /\ buff.cs.n = last.before.buff.cs.n
               /\ buff.cs.otext = BText /\ buff.cs.ocur = BCursor
               /\ Text(buff) = NewText(buff.cs) /\ buff.cursor = NewCursor(buff.cs)
    /\ (BareKey("tab") /\ ~on_first_line(BText, BCursor)
            /\ current_line(BText, BCursor) # <<>>
            /\ ~Visible(current_line(BText, BCursor)))
       => /\ Text(Ret) = Inserted(BText, BCursor, <<" ", " ", " ", " ">>)
          /\ ~Ret.cs.open /\ buff = Ret
          /\ background_tasks = last.before.tasks

\* C5 witness: a Tab on the session an earlier Tab started moved from the
\* first candidate to the second.
C5_Witness ==
    /\ BareKey("tab")
    /\ last.before.buff.cs.open /\ last.before.buff.cs.index = 0
    /\ Text(buff) # BText
    /\ buff.cs.open /\ buff.cs.index = 1
    /\ buff.cs.otext = last.before.buff.cs.otext

\* C5 second witness: the completer of a session started by Tab came to
\* its end with two candidates delivered, and the first one was applied and
\* selected.
C5_WitnessFinished ==
    /\ Finished(TRUE) /\ buff.cs.n = 2 /\ buff.cs.index = 0
    /\ Text(buff) # BText

\* C5 third witness: Tab indented a line of one tab character.
C5_WitnessIndent ==
    /\ BareKey("tab") /\ current_line(BText, BCursor) = <<"\t">>
    /\ Len(Text(buff)) = Len(BText) + 4

\* C5 fourth witness: Tab indented a line of one vertical tab.
C5_WitnessVerticalTab ==
    /\ BareKey("tab") /\ current_line(BText, BCursor) = <<"U+000B">>
    /\ Len(Text(buff)) = Len(BText) + 4

\* C5 fifth witness: the menu of a session started by Tab opened with no
\* candidate selected.
C5_WitnessOpened ==
    /\ Opened(TRUE) /\ buff.cs.n = 1 /\ buff.cs.index = -1
    /\ buff.completer.running

\* C5 sixth witness: the completer of a session started by Tab came to its
\* end with the text before the cursor as its only candidate, and the
\* session was closed.
C5_WitnessRepeats ==
    /\ Finished(TRUE) /\ OnlyRepeats(last.before.buff)
    /\ ~buff.cs.open

\* C5 seventh witness: Tab raised on a session whose list the completer had
\* emptied under the selection.
C5_WitnessEmptied ==
    /\ BareKey("tab") /\ Emptied(last.before.buff.cs)
    /\ last.raised = "IndexError" /\ buff = last.before.buff

\* C5 as first stated: when the current line holds a character, whitespace
\* included, or the cursor is on the first line, Tab inserts no indent:
\* with no session open it starts one with select_first set, and with a
\* session open that session is still the open one.
C5_Original ==
    (BareKey("tab") /\ (on_first_line(BText, BCursor) \/ current_line(BText, BCursor) # <<>>))
    => /\ Text(Ret) # Inserted(BText, BCursor, Repeat(" ", TabWidth))
       /\ ~last.before.buff.cs.open
            => background_tasks = Append(last.before.tasks, "complete_first")
       /\ last.before.buff.cs.open
            => (Ret.cs.open /\ Ret.cs.otext = last.before.buff.cs.otext)

\* C6: a bare Tab on an empty line that is not the first line inserts
\* exactly 4 spaces at the cursor and moves the cursor behind them; no
\* completion session is open afterwards, whether or not one was open, and
\* none is started.
C6_TabIndents ==
    (BareKey("tab") /\ ~on_first_line(BText, BCursor) /\ current_line(BText, BCursor) = <<>>)
    => /\ last.fired = <<"tab">>
       /\ Text(Ret) = Inserted(BText, BCursor, <<" ", " ", " ", " ">>)
       /\ Ret.cursor = BCursor + 4
       /\ Ret.cs = NoCompletion
       /\ background_tasks = last.before.tasks

\* C6 witness: Tab indented an empty second line while a completion session
\* was open.
C6_Witness ==
    /\ BareKey("tab") /\ ~on_first_line(BText, BCursor)
    /\ current_line(BText, BCursor) = <<>>
    /\ last.before.buff.cs.open
    /\ Len(Text(Ret)) = Len(BText) + 4 /\ ~Ret.cs.open

\* C7: a toggle key pressed twice in a row restores what it toggles: F2
\* smart_completion, F3 multi_line, F5 explain_mode, F4 vi_mode and with it
\* the application's editing mode; between the two presses the value is the
\* opposite one.
C7_TogglesAreInvolutions ==
    (last.kind = "key" /\ last.repeat)
    => /\ last.key = "f2"
            => /\ pgcli.smart_completion = last.before2.pgcli.smart_completion
               /\ last.before.pgcli.smart_completion # pgcli.smart_completion
       /\ last.key = "f3"
            => /\ pgcli.multi_line = last.before2.pgcli.multi_line
               /\ last.before.pgcli.multi_line # pgcli.multi_line
       /\ last.key = "f5"
            => /\ pgcli.explain_mode = last.before2.pgcli.explain_mode
               /\ last.before.pgcli.explain_mode # pgcli.explain_mode
       /\ last.key = "f4"
            => /\ pgcli.vi_mode = last.before2.pgcli.vi_mode
               /\ last.before.pgcli.vi_mode # pgcli.vi_mode
               /\ editing_mode = last.before2.editing_mode
               /\ last.before.editing_mode # editing_mode

\* C7 witness: the second of two F4 presses brought the editor back to
\* emacs mode.
C7_Witness ==
    /\ Pressed("f4") /\ last.repeat
    /\ last.before2.editing_mode = "EMACS" /\ ~last.before2.pgcli.vi_mode
    /\ last.before.editing_mode = "VI" /\ last.before.pgcli.vi_mode
    /\ editing_mode = "EMACS" /\ ~pgcli.vi_mode

\* C8: when Enter follows a pending Escape while the editing mode is not VI
\* and the safe-multiline predicate does not hold, the chord binding alone
\* is called: exactly one newline is inserted at the cursor and the buffer
\* is not submitted, whatever a bare Enter would do in that state.  The
\* chord binding is never called when the editing mode is VI or the
\* safe-multiline predicate holds.
C8_EscapeEnterInsertsNewline ==
    /\ (Pressed("enter") /\ last.pending = <<"escape">>
            /\ last.before.editing_mode # "VI" /\ ~last.ev.sml)
       => /\ last.fired = <<"escape_enter">>
          /\ Text(Ret) = Inserted(BText, BCursor, <<"\n">>)
          /\ Ret.cursor = BCursor + 1
          /\ Text(buff) = Text(Ret) /\ buff.cursor = Ret.cursor
          /\ last.submitted = 0
    /\ Fired("escape_enter")
       => /\ last.before.editing_mode # "VI" /\ ~last.ev.sml
          /\ last.submitted = 0

\* C8 witness: the chord inserted a newline, with a candidate highlighted,
\* where a bare Enter would have accepted the candidate.
C8_Witness ==
    /\ Pressed("enter") /\ last.pending = <<"escape">>
    /\ Highlighted(Before)
    /\ last.ev.bsh /\ ~last.ev.searching
    /\ last.fired = <<"escape_enter">>
    /\ Text(buff) = Inserted(BText, BCursor, <<"\n">>)

\* C8 second witness: with Escape pending and the safe-multiline predicate
\* true at the Enter, the chord binding was not called.
C8_WitnessBlocked ==
    /\ Pressed("enter") /\ last.pending = <<"escape">>
    /\ last.ev.sml /\ ~Fired("escape_enter")

\* C8 third witness: the chord inserted a newline, with the menu open and
\* no candidate highlighted, where a bare Enter would have submitted the
\* buffer.
C8_WitnessSubmittable ==
    /\ Pressed("enter") /\ last.pending = <<"escape">>
    /\ has_completions(Before) /\ ~Highlighted(Before)
    /\ last.ev.bsh /\ ~last.ev.searching
    /\ last.fired = <<"escape_enter">>
    /\ Len(Text(buff)) = Len(BText) + 1

\* C8 fourth witness: the chord inserted a newline while a search was
\* active.
C8_WitnessSearching ==
    /\ Pressed("enter") /\ last.pending = <<"escape">>
    /\ last.ev.searching
    /\ last.fired = <<"escape_enter">>
    /\ Len(Text(buff)) = Len(BText) + 1

\* C8 fifth witness: in vi mode, Enter after Escape did not call the chord
\* binding.
C8_WitnessVi ==
    /\ Pressed("enter") /\ last.before.editing_mode = "VI"
    /\ ~last.ev.sml /\ ~Fired("escape_enter")
    /\ Highlighted(Before)

\* C9 (amended): with a selection active Ctrl-P and Ctrl-N call no binding
\* and leave the buffer as it is.  With no selection Ctrl-P moves back in
\* history by the event's repeat count (1 when none is given or when a
\* million or more is typed) and stops at
\* the oldest entry when fewer entries remain; Ctrl-N moves forward by that
\* count and stops at the newest entry; a count of zero or less runs to the
\* oldest or the newest entry.  The entries themselves are not changed.
C9_HistoryMoves ==
    \A k \in {"c-p", "c-n"} :
        Pressed(k)
        => IF last.before.buff.selection
           THEN last.fired = <<>> /\ buff = last.before.buff
           ELSE LET n == IF ~last.ev.arg.given \/ last.ev.arg.n >= 1000000
                         THEN 1 ELSE last.ev.arg.n
                    from == last.before.buff.widx
                    newest == Len(last.before.buff.lines)
                IN /\ last.fired = <<k>>
                   /\ Ret.lines = last.before.buff.lines
                   /\ Ret.widx =
                        IF k = "c-p"
                        THEN (IF n >= 1 /\ from - n >= 1 THEN from - n ELSE 1)
                        ELSE (IF n >= 1 /\ from + n <= newest THEN from + n ELSE newest)

\* C9 witness: Ctrl-P with the repeat count 2 moved two entries back.
C9_Witness ==
    /\ Pressed("c-p") /\ ~last.before.buff.selection
    /\ last.ev.arg.given /\ last.ev.arg.n = 2
    /\ buff.widx = last.before.buff.widx - 2

\* C9 third witness: Ctrl-P with a count of a million typed moved one entry
\* back, with more entries behind it.
C9_WitnessMillion ==
    /\ Pressed("c-p") /\ ~last.before.buff.selection
    /\ last.ev.arg.given /\ last.ev.arg.n = 1000000
    /\ last.before.buff.widx = 3 /\ Ret.widx = 2

\* C9 second witness: Ctrl-N with a selection active did nothing.
C9_WitnessSelection ==
    /\ Pressed("c-n") /\ last.before.buff.selection
    /\ last.before.buff.widx < Len(last.before.buff.lines)
    /\ last.fired = <<>>

\* C9 as first stated: with no selection Ctrl-P moves back by exactly the
\* repeat count and Ctrl-N forward by exactly that count; with a selection
\* both are no-ops.
C9_Original ==
    \A k \in {"c-p", "c-n"} :
        Pressed(k)
        => IF last.before.buff.selection
           THEN buff = last.before.buff
           ELSE LET n == IF last.ev.arg.given THEN last.ev.arg.n ELSE 1
                IN buff.widx = IF k = "c-p" THEN last.before.buff.widx - n
                                            ELSE last.before.buff.widx + n

\* The cursor-shape code the terminal is to receive for an input mode.
Code(mode) == IF mode = "NAVIGATION" THEN 1 ELSE IF mode = "REPLACE" THEN 3 ELSE 5

\* C10: once the ViState class is patched and while the stream takes the
\* write, every assignment of a mode M to the input mode sends exactly one
\* sequence ESC [ c SPACE q, c being 1 for NAVIGATION, 3 for REPLACE and 5
\* for every other mode, also when M is the mode already stored; the mode
\* read afterwards is M; reading the mode sends nothing.
C10_OneSequencePerSet ==
    /\ (last.kind = "set_mode" /\ last.before.vi_state.patched /\ stdout = "ok")
       => /\ last.out = << <<27, 91, 48 + Code(last.mode), 32, 113>> >>
          /\ term = <<27, 91, 48 + Code(last.mode), 32, 113>>
          /\ GetInputMode(Cur) = last.mode
          /\ last.raised = "none"
    /\ last.kind = "get_mode"
       => (last.out = <<>> /\ term = last.before.term)

\* C10 witness: NAVIGATION was assigned while NAVIGATION was the stored
\* mode, and the block-cursor sequence was sent again.
C10_Witness ==
    /\ last.kind = "set_mode" /\ last.mode = "NAVIGATION"
    /\ last.before.vi_state.patched /\ last.before.vi_state.inst_mode = "NAVIGATION"
    /\ stdout = "ok"
    /\ last.out = << <<27, 91, 49, 32, 113>> >>

\* C10 second witness: the mode was read after a patched assignment and
\* nothing was sent.
C10_WitnessRead ==
    /\ last.kind = "get_mode" /\ vi_state.patched /\ last.mode = "REPLACE"
    /\ last.out = <<>>

\* C11: a failed cursor-shape write never interrupts editing: whatever the
\* stream is (missing, closed, raising an I/O error, a text stream that
\* takes no bytes), neither the patched
\* setter nor the F4 handler lets an exception out, the setter still stores
\* the assigned mode, and F4 still flips vi_mode and sets the editing mode.
C11_WriteFailureIsSilent ==
    /\ (last.kind = "set_mode" /\ last.before.vi_state.patched)
       => (last.raised = "none" /\ GetInputMode(Cur) = last.mode)
    /\ Pressed("f4")
       => /\ last.raised = "none"
          /\ pgcli.vi_mode # last.before.pgcli.vi_mode
          /\ editing_mode = (IF pgcli.vi_mode THEN "VI" ELSE "EMACS")

\* C12: after every F4 press the editing mode is VI exactly when vi_mode is
\* true and EMACS exactly when it is false.  An F4 press that leaves vi
\* mode sends, to a stream that takes the write, exactly one beam reset
\* ESC [ 5 SPACE q, whatever the input mode is and whether or not the
\* ViState class was ever patched; an F4 press that enters vi mode patches
\* the class and sends nothing.
C12_F4SyncsModeAndCursor ==
    Pressed("f4")
    => /\ last.fired = <<"f4">>
       /\ editing_mode = (IF pgcli.vi_mode THEN "VI" ELSE "EMACS")
       /\ pgcli.vi_mode
            => (vi_state.patched /\ last.out = <<>> /\ term = last.before.term)
       /\ (~pgcli.vi_mode /\ stdout = "ok")
            => (last.out = << <<27, 91, 53, 32, 113>> >> /\ term = <<27, 91, 53, 32, 113>>)

\* C12 witness: F4 left a vi mode whose class was never patched, and the
\* beam reset was sent.
C12_Witness ==
    /\ Pressed("f4") /\ ~pgcli.vi_mode /\ editing_mode = "EMACS"
    /\ ~last.before.vi_state.patched /\ stdout = "ok"
    /\ last.out = << <<27, 91, 53, 32, 113>> >>

\* C12 second witness: F4 left vi mode while the stored input mode was
\* NAVIGATION, and the beam reset was sent.
C12_WitnessNavigation ==
    /\ Pressed("f4") /\ ~pgcli.vi_mode
    /\ last.before.vi_state.patched /\ last.before.vi_state.inst_mode = "NAVIGATION"
    /\ last.out = << <<27, 91, 53, 32, 113>> >>

\* C13: a bare Ctrl-Space calls its binding in every state and never
\* changes the text; the handler leaves the cursor where it is.  With a
\* session open it closes it; with none open it leaves the buffer as it is
\* and starts a session with select_first not set.  The menu of a session
\* started that way opens on the unchanged document with no candidate
\* selected, and the end of the completer's run selects none either.
C13_CtrlSpaceToggles ==
    /\ BareKey("c-space")
       => /\ last.fired = <<"c-space">>
          /\ Text(buff) = BText /\ Ret.cursor = BCursor
          /\ ~completion_is_selected(Cur)
          /\ IF last.before.buff.cs.open
             THEN Ret.cs = NoCompletion /\ background_tasks = last.before.tasks
             ELSE /\ Ret = last.before.buff
                  /\ background_tasks = Append(last.before.tasks, "complete")
    /\ Opened(FALSE)
       => /\ buff.cs.index = -1
          /\ buff.cs.otext = BText /\ buff.cs.ocur = BCursor
          /\ Text(buff) = BText /\ buff.cursor = BCursor
    /\ Finished(FALSE)
       => /\ ~completion_is_selected(Cur)
          /\ Text(buff) = BText /\ buff.cursor = BCursor

\* C13 witness: Ctrl-Space, with no session open, started one.
C13_Witness ==
    /\ BareKey("c-space") /\ ~last.before.buff.cs.open
    /\ last.before.tasks = <<>> /\ background_tasks = <<"complete">>
    /\ buff = last.before.buff

\* C13 second witness: Ctrl-Space closed a menu with a candidate
\* highlighted, and the candidate's text stayed in the buffer.
C13_WitnessClose ==
    /\ BareKey("c-space") /\ Highlighted(Before)
    /\ ~buff.cs.open
    /\ Text(buff) = BText /\ BText # last.before.buff.cs.otext

\* C13 third witness: the menu of a session started by Ctrl-Space opened
\* with no candidate selected.
C13_WitnessOpened ==
    /\ Opened(FALSE) /\ buff.cs.n = 1 /\ buff.cs.index = -1

\* C13 fourth witness: the completer of a session started by Ctrl-Space
\* came to its end with two candidates delivered and none selected.
C13_WitnessFinished ==
    /\ Finished(FALSE) /\ buff.cs.open /\ buff.cs.n = 2 /\ buff.cs.index = -1

\* The key sequences of the table, and the values the host-owned
\* predicates of an event can take.
Chords == {Bindings[i].keys : i \in 1..Len(Bindings)}
PredicateInputs ==
    {[DefaultEvent EXCEPT !.searching = se, !.bsh = bs, !.sml = sm] :
        se \in BOOLEAN, bs \in BOOLEAN, sm \in BOOLEAN}

\* C14: in every state, for every chord of the table and every value of
\* the host's predicates, at most one binding is left once the eager
\* matches are given precedence, so the binding called does not depend on
\* the registration order; a key press with no key pending calls one
\* handler or none.
C14_OneBindingSelectable ==
    /\ \A keys \in Chords : \A ev \in PredicateInputs :
          Len(Select(Matches(keys, Cur, ev))) <= 1
    /\ (last.kind = "key" /\ last.pending = <<>>) => Len(last.fired) <= 1

\* C14 witness: both bindings of l were enabled and only the eager one was
\* called.
C14_Witness ==
    /\ Pressed("l")
    /\ Len(Matches(<<"l">>, Before, last.ev)) = 2
    /\ last.fired = <<"l_accept">>

\* C14 second witness: Enter found a candidate highlighted while the
\* submission predicate held, and only the accept binding matched.
C14_WitnessEnter ==
    /\ Pressed("enter") /\ Highlighted(Before)
    /\ last.ev.bsh /\ ~last.ev.searching
    /\ Len(Matches(<<"enter">>, Before, last.ev)) = 1
    /\ last.fired = <<"enter_accept">>

ToggleKeys == {"f2", "f3", "f4", "f5"}

\* The flags after the toggle key k has flipped its own.
Flipped(flags, k) ==
    CASE k = "f2" -> [flags EXCEPT !.smart_completion = ~@]
      [] k = "f3" -> [flags EXCEPT !.multi_line = ~@]
      [] k = "f4" -> [flags EXCEPT !.vi_mode = ~@]
      [] k = "f5" -> [flags EXCEPT !.explain_mode = ~@]

\* The handlers of the table other than those of F2..F5 (the repeat count
\* is read by the history handlers only).
BufferHandlers == {Bindings[i].id : i \in 1..Len(Bindings)} \ ToggleKeys

\* The state the handler of the last toggle key left to the key processor:
\* the buffer as it was, under the editing mode and the input mode the key
\* left.
AfterToggle ==
    [Cur EXCEPT !.buff = last.before.buff,
                !.vi_state.temporary_navigation_mode =
                    last.before.vi_state.temporary_navigation_mode]

\* C15 (amended): F2, F3, F4 and F5 call their binding in every state;
\* each flips its own flag and leaves the other three flags and the buffer
\* text as they are, its handler returns the buffer, completion state
\* included, as it found it, and only F4 changes the editing mode.  After
\* the key press the buffer is as it was, completion state included, unless
\* the editor is then in vi navigation mode with the cursor behind the last
\* character of a line: the cursor is then on that character and the
\* completion state is empty.
\* Every other handler of the table leaves the four flags and the editing
\* mode as they are: this holds of every event that calls no toggle
\* handler and of every such handler called in any reachable state.
C15_TogglesFrame ==
    /\ \A k \in ToggleKeys :
          /\ Pressed(k) => Fired(k)
          /\ BareKey(k)
             => /\ last.fired = <<k>>
                /\ pgcli = Flipped(last.before.pgcli, k)
                /\ Ret = last.before.buff
                /\ Text(buff) = BText
                /\ IF vi_navigation_mode(AfterToggle) /\ BehindLastChar(BText, BCursor)
                   THEN /\ buff.cursor = BCursor - 1
                        /\ buff.cs = NoCompletion
                   ELSE buff = last.before.buff
                /\ k # "f4" => editing_mode = last.before.editing_mode
    /\ (last.kind \in {"key", "flush"} /\ \A k \in ToggleKeys : ~Fired(k))
       => (pgcli = last.before.pgcli /\ editing_mode = last.before.editing_mode)
    /\ \A id \in BufferHandlers :
          \A a \in (IF id \in {"c-p", "c-n"} THEN Args ELSE {NoArg}) :
             \E r \in {Handler(id, Cur, EventArg(a))} :
                r.pgcli = pgcli /\ r.editing_mode = editing_mode

\* C15 witness: F5 flipped explain_mode while the menu was open with a
\* candidate highlighted, and left the buffer, completion state included,
\* as it was.
C15_Witness ==
    /\ BareKey("f5") /\ Highlighted(Before)
    /\ pgcli.explain_mode # last.before.pgcli.explain_mode
    /\ pgcli.vi_mode = last.before.pgcli.vi_mode
    /\ buff = last.before.buff /\ Highlighted(Cur)

\* C15 second witness: Tab started a completion session and the flags, of
\* which smart_completion had been switched off, stayed as they were.
C15_WitnessTab ==
    /\ BareKey("tab") /\ last.fired = <<"tab">>
    /\ background_tasks = Append(last.before.tasks, "complete_first")
    /\ ~pgcli.smart_completion /\ pgcli = last.before.pgcli

\* C15 third witness: in vi navigation mode F2 found a candidate
\* highlighted with the cursor behind the text, and the key press left the
\* cursor on the last character and the completion state empty.
C15_WitnessNavigation ==
    /\ BareKey("f2") /\ Highlighted(Before)
    /\ vi_navigation_mode(Before) /\ BehindLastChar(BText, BCursor)
    /\ Ret = last.before.buff
    /\ buff.cursor = BCursor - 1 /\ ~buff.cs.open

\* C15 as first stated: each of F2, F3, F4 and F5 flips its own flag and
\* leaves the other three flags, the buffer text and the completion state
\* unchanged.
C15_Original ==
    \A k \in ToggleKeys :
        BareKey(k)
        => /\ pgcli = Flipped(last.before.pgcli, k)
           /\ Text(buff) = BText
           /\ buff.cs = last.before.buff.cs

\* C16: however often F4 has patched the ViState class, an assignment to
\* the input mode sends, to a stream that takes the write, exactly one
\* sequence; and an F4 press that patches the class again leaves the mode
\* read from the editor's ViState as it was, as does a call of
\* setup_vim_cursor_shapes outside a key event.
C16_ReattachIsIdempotent ==
    /\ (last.kind = "set_mode" /\ last.before.vi_state.attached >= 1 /\ stdout = "ok")
       => Len(last.out) = 1
    /\ (Pressed("f4") /\ pgcli.vi_mode /\ last.before.vi_state.attached >= 1)
       => /\ GetInputMode(Cur) = GetInputMode(Before)
          /\ vi_state.inst_mode = last.before.vi_state.inst_mode
          /\ last.out = <<>>
    /\ (last.kind = "setup" /\ last.before.vi_state.attached >= 1)
       => /\ GetInputMode(Cur) = GetInputMode(Before)
          /\ vi_state.inst_mode = last.before.vi_state.inst_mode
          /\ last.out = <<>>
          /\ pgcli = last.before.pgcli /\ editing_mode = last.before.editing_mode

\* C16 witness: the class had been patched twice when REPLACE was assigned,
\* and one sequence was sent.
C16_Witness ==
    /\ last.kind = "set_mode" /\ last.mode = "REPLACE"
    /\ last.before.vi_state.attached = 2 /\ stdout = "ok"
    /\ Len(last.out) = 1

\* C16 second witness: F4 patched the class a second time while the stored
\* mode was NAVIGATION, and NAVIGATION is still read.
C16_WitnessReattach ==
    /\ Pressed("f4") /\ pgcli.vi_mode
    /\ last.before.vi_state.attached = 1 /\ vi_state.attached = 2
    /\ GetInputMode(Before) = "NAVIGATION" /\ GetInputMode(Cur) = "NAVIGATION"

\* The completion state after Ctrl-K on an open session: the candidate
\* before, none before the first, the last from none.
Retreated(cs) ==
    [cs EXCEPT !.index = IF @ = 0 THEN -1 ELSE IF @ = -1 THEN cs.n - 1 ELSE @ - 1]

\* C17: the bindings of Escape, Ctrl-J and Ctrl-K are called only with the
\* completion menu open.  Escape clears the completion state and leaves
\* text and cursor as they are; Ctrl-J moves the session to the next
\* candidate and Ctrl-K to the previous one (through "no candidate" at the
\* ends), the text being the original one with the candidate applied.  With
\* no menu showing a press of one of the three calls no binding and leaves
\* the buffer as it is, so that no menu shows afterwards either.
C17_MenuKeysNeedOpenMenu ==
    /\ Fired("escape")
       => /\ has_completions(Before) /\ last.fired[1] = "escape"
          /\ last.fired = <<"escape">>
               => /\ Ret.cs = NoCompletion /\ buff.cs = NoCompletion
                  /\ Text(buff) = BText /\ Ret.cursor = BCursor
    /\ Fired("c-j")
       => /\ last.fired = <<"c-j">> /\ has_completions(Before)
          /\ Ret.cs = Advanced(last.before.buff.cs)
          /\ Text(Ret) = NewText(Ret.cs) /\ Ret.cursor = NewCursor(Ret.cs)
          /\ Text(buff) = Text(Ret)
    /\ Fired("c-k")
       => /\ last.fired = <<"c-k">> /\ has_completions(Before)
          /\ Ret.cs = Retreated(last.before.buff.cs)
          /\ Text(Ret) = NewText(Ret.cs) /\ Ret.cursor = NewCursor(Ret.cs)
          /\ Text(buff) = Text(Ret)
    /\ \A k \in {"escape", "c-j", "c-k"} :
          /\ (Pressed(k) /\ ~has_completions(Before))
             => (last.fired = <<>> /\ buff = last.before.buff /\ ~has_completions(Cur))
          /\ (BareKey(k) /\ has_completions(Before) /\ k # "escape")
             => last.fired = <<k>>
    /\ (BareKey("escape") /\ has_completions(Before))
       => \/ last.fired = <<"escape">>
          \/ last.fired = <<>> /\ key_buffer = <<"escape">>
                /\ last.before.editing_mode # "VI" /\ ~last.ev.sml

\* C17 witness: Ctrl-K moved from the first candidate back to none, and
\* the original text was restored.
C17_Witness ==
    /\ BareKey("c-k") /\ last.fired = <<"c-k">>
    /\ last.before.buff.cs.index = 0 /\ Ret.cs.open /\ Ret.cs.index = -1
    /\ Text(Ret) = Ret.cs.otext /\ Text(Ret) # BText

\* C17 second witness: Escape closed a menu with a candidate highlighted
\* and the candidate's text stayed.
C17_WitnessEscape ==
    /\ Pressed("escape") /\ last.fired = <<"escape">>
    /\ Highlighted(Before) /\ ~buff.cs.open
    /\ Text(buff) = BText /\ BText # last.before.buff.cs.otext

\* C17 third witness: Ctrl-J with the menu closed called nothing.
C17_WitnessClosed ==
    /\ Pressed("c-j") /\ ~last.before.buff.cs.open
    /\ last.fired = <<>> /\ ~buff.cs.open

\* C17 fourth witness: Ctrl-J while the completer had delivered no
\* candidate yet called nothing.
C17_WitnessLoading ==
    /\ Pressed("c-j") /\ last.before.buff.cs.open /\ last.before.buff.cs.n = 0
    /\ last.before.buff.completer.running
    /\ last.fired = <<>> /\ buff = last.before.buff

\* C17 sixth witness: Ctrl-J moved to the first candidate while the
\* completer was still delivering.
C17_WitnessDelivering ==
    /\ BareKey("c-j") /\ last.fired = <<"c-j">>
    /\ last.before.buff.completer.running /\ last.before.buff.cs.index = -1
    /\ buff.cs.open /\ buff.cs.index = 0

\* C17 fifth witness: in vi navigation mode Ctrl-J moved to the next
\* candidate at the end of the line.
C17_WitnessNavigation ==
    /\ BareKey("c-j") /\ last.fired = <<"c-j">> /\ vi_navigation_mode(Before)
    /\ Ret.cs.open /\ Ret.cs.index = last.before.buff.cs.index + 1

\* C18: while every write succeeds, in every state in which vi mode is on,
\* the ViState class is patched and a cursor-shape sequence has been sent,
\* the sequence sent last carries the code of the input mode read from the
\* editor's ViState (1 for NAVIGATION, 3 for REPLACE, 5 otherwise), also
\* after vi mode was left in NAVIGATION or REPLACE and entered again.
C18_CursorMatchesMode ==
    (stdout = "ok" /\ pgcli.vi_mode /\ vi_state.patched /\ term # <<>>)
    => term = <<27, 91, 48 + Code(GetInputMode(Cur)), 32, 113>>

\* The next event is a bare Enter.
EnterNext == last'.kind = "key" /\ last'.key = "enter" /\ last'.pending = <<>>

\* The next event calls the accept binding only: the menu is closed and the
\* buffer is not submitted.
EnterAccepts ==
    /\ last'.fired = <<"enter_accept">>
    /\ ~buff'.cs.open
    /\ last'.submitted = 0

\* The next event does not call the accept binding, and it submits the
\* buffer exactly when no search is active and the submission predicate
\* holds.
EnterSubmits ==
    /\ \A i \in 1..Len(last'.fired) : last'.fired[i] # "enter_accept"
    /\ (~last'.ev.searching /\ last'.ev.bsh)
          => (last'.fired = <<"enter_submit">> /\ last'.submitted = 1)
    /\ ~(~last'.ev.searching /\ last'.ev.bsh)
          => (last'.fired = <<>> /\ last'.submitted = 0)

\* C19 (amended): when the completer of a session started by Tab has come
\* to its end and left the menu showing (candidates exist, the first one is
\* selected), an Enter that follows immediately calls the accept binding
\* only: the menu is closed and the buffer is not submitted.  While the
\* completer is still delivering the candidates of that session none is
\* selected: an Enter that immediately follows the opening of the menu is
\* not taken by the accept binding and submits the buffer exactly when no
\* search is active and the submission predicate holds.  So does an Enter
\* that immediately follows the opening of the menu of a session started by
\* Ctrl-Space, or the end of its completer.
C19_OpeningKeyDecidesEnter ==
    [][EnterNext
       => /\ (Finished(TRUE) /\ buff.cs.open) => EnterAccepts
          /\ Opened(TRUE) => EnterSubmits
          /\ Opened(FALSE) => EnterSubmits
          /\ Finished(FALSE) => EnterSubmits
      ]_vars

\* C19 witness: Enter submitted the buffer while the menu, opened with
\* nothing selected on an untouched document, was showing.
C19_Witness ==
    /\ BareKey("enter") /\ last.before.buff.cs.open
    /\ last.before.buff.cs.index = -1 /\ last.before.buff.cs.n = 2
    /\ ~last.before.buff.completer.running
    /\ BText = last.before.buff.cs.otext
    /\ last.fired = <<"enter_submit">> /\ last.submitted = 1

\* C19 second witness: Enter closed, without submitting, a menu showing the
\* first candidate selected after the completer's end, with the submission
\* predicate true.
C19_WitnessTab ==
    /\ BareKey("enter") /\ last.before.buff.cs.open /\ last.before.buff.cs.index = 0
    /\ ~last.before.buff.completer.running
    /\ last.ev.bsh /\ ~last.ev.searching
    /\ last.fired = <<"enter_accept">> /\ last.submitted = 0 /\ ~buff.cs.open

\* C19 third witness: Enter submitted the buffer while the completer of a
\* session started by Tab was delivering candidates, of which none was
\* selected.
C19_WitnessDelivering ==
    /\ BareKey("enter")
    /\ last.before.buff.completer.running /\ last.before.buff.completer.select_first
    /\ last.before.buff.cs.open /\ last.before.buff.cs.n = 1
    /\ last.before.buff.cs.index = -1
    /\ last.fired = <<"enter_submit">> /\ last.submitted = 1

\* C19 as first stated: when the menu of a session started by Tab has
\* opened (candidates exist), an Enter that follows immediately calls the
\* accept binding only, closes the menu and does not submit; when the menu
\* of a session started by Ctrl-Space has opened, an Enter that follows
\* immediately is not taken by the accept binding and submits the buffer
\* exactly when no search is active and the submission predicate holds.
C19_Original ==
    [][EnterNext
       => /\ Opened(TRUE) => EnterAccepts
          /\ Opened(FALSE) => EnterSubmits
      ]_vars

====
